---- MODULE Spec2Model ----
(***************************************************************************)
(* The crate loader of rustc_metadata (creader.rs): the crate store        *)
(* (metas + the stable-crate-id interner), the recursive resolver, and the  *)
(* loading of WebAssembly proc-macro libraries.                            *)
(*                                                                         *)
(* CrateNum k is stored at position k+1 of the sequences metas and         *)
(* stable_crate_ids (TLA+ sequences start at 1).                           *)
(***************************************************************************)
EXTENDS Integers, Sequences, FiniteSets, TLC

VARIABLES
    sess,                \* the session options (fixed after Init)
    metas,               \* CStore.metas: Option<CrateMetadata> per CrateNum
    stable_crate_ids,    \* tcx.untracked().stable_crate_ids: the id of every CrateNum
    used_extern_options, \* CStore.used_extern_options
    panicked,            \* "" or the message of the panic that ended the session
    diag,                \* the CrateError kinds reported through the session handler
    hist,                \* history of the calls made into the store (ghost)
    injected_panic_runtime, \* CStore.injected_panic_runtime
    last,                \* the last top-level call and its result (ghost)
    allocator,           \* CStore: has_global_allocator, has_alloc_error_handler,
                         \* allocator_kind, alloc_error_handler_kind
    unused_externs,      \* CStore.unused_externs
    post_run,            \* the record of the last run of postprocess (ghost)
    slots,               \* SLOTS: the filled slots of the wasm proc-macro registry
    dylib,               \* load_symbol_from_dylib: where the call stands, the outcome of
                         \* each attempt_load_dylib so far, and its result
    applied,             \* the last application of one of the loader's functions on
                         \* its own: the function, its arguments, what it returned
    postorder,           \* the answer of the last crate_dependencies_in_postorder query
                         \* made of the store as it is now (None: no such query)
    ncalls,              \* number of top-level calls made so far (ghost)
    threads,             \* the threads calling allocate_slot, the slot functions and
                         \* WasmMacro::id: where each stands, and its locals
    atomics              \* the lock of SLOTS, NEXT_ID, and the id of each WasmMacro

vars == <<sess, metas, stable_crate_ids, used_extern_options, panicked, diag, hist,
          injected_panic_runtime, last, allocator, unused_externs, post_run, slots,
          dylib, applied, postorder, ncalls, threads, atomics>>

----------------------------------------------------------------------------
(* Bounds of the model *)

MaxCalls == 3

----------------------------------------------------------------------------
(* Option<T> *)

None == [some |-> FALSE]
Some(v) == [some |-> TRUE, val |-> v]

LOCAL_CRATE == 0

Min(S) == CHOOSE x \in S : \A y \in S : x <= y
Max(S) == CHOOSE x \in S : \A y \in S : x >= y

----------------------------------------------------------------------------
(* CrateDepKind and its derived ordering, used by cmp::max *)

CrateDepKinds == {"MacrosOnly", "Implicit", "Explicit"}

DepKindRank(k) ==
    CASE k = "MacrosOnly" -> 0
      [] k = "Implicit" -> 1
      [] k = "Explicit" -> 2

DepKindMax(a, b) == IF DepKindRank(b) > DepKindRank(a) THEN b ELSE a

(* PathKind::matches *)
PathKindMatches(kind, prev_kind) ==
    kind = "All" \/ prev_kind = "All" \/ kind = prev_kind

(* StableCrateId::new(crate_name, is_exe, metadata, cfg_version): a hash of *)
(* its arguments, modelled as the tuple of them (cfg_version is one fixed   *)
(* value for the whole session).                                            *)
StableCrateIdNew(crate_name, is_exe, metadata) == <<crate_name, is_exe, metadata>>

(* str::is_ascii on the crate names of the model *)
NonAsciiNames == {"caf\\u{e9}"}
IsAscii(name) == name \notin NonAsciiNames

----------------------------------------------------------------------------
(* The libraries on disk: what the locator can find.                        *)

CrateDep(name, hash, host_hash, is_private, kind) ==
    [name |-> name, hash |-> hash, host_hash |-> host_hash,
     is_private |-> is_private, kind |-> kind]

(* attrs: the crate-level attributes recorded in the root that the injectors *)
(* ask about                                                                *)
Lib(path, pkind, ftype, name, hash, sid, pm, deps, modes, dlsym, attrs) ==
    [path |-> path, pkind |-> pkind, ftype |-> ftype, name |-> name, hash |-> hash,
     sid |-> sid, pm |-> pm, deps |-> deps, modes |-> modes, dlsym |-> dlsym,
     attrs |-> attrs]

Catalog == <<
    \* a: depends publicly on b
    Lib("/p/liba.rlib", "Crate", "rlib", "a", "ha", StableCrateIdNew("a", FALSE, ""), FALSE,
        <<CrateDep("b", "hb", None, FALSE, "Explicit")>>, {"normal"}, FALSE,
        {"needs_allocator", "has_global_allocator", "has_alloc_error_handler"}),
    \* b, found in a dependency search path
    Lib("/d/libb.rlib", "Dependency", "rlib", "b", "hb", StableCrateIdNew("b", FALSE, ""), FALSE,
        <<>>, {"normal"}, FALSE, {"has_global_allocator"}),
    \* the same b (same name and hash) at another path, in a crate search path
    Lib("/p/libb.rlib", "Crate", "rlib", "b", "hb", StableCrateIdNew("b", FALSE, ""), FALSE,
        <<>>, {"normal"}, FALSE, {"has_global_allocator"}),
    \* another build of a: other hash, same StableCrateId
    Lib("/d/liba2.rlib", "Dependency", "rlib", "a", "ha2", StableCrateIdNew("a", FALSE, ""), FALSE,
        <<>>, {"normal"}, FALSE, {}),
    \* c: depends privately on the second build of a, and on the proc macro m
    Lib("/p/libc.rlib", "Crate", "rlib", "c", "hc", StableCrateIdNew("c", FALSE, ""), FALSE,
        <<CrateDep("a", "ha2", None, TRUE, "Explicit"),
          CrateDep("m", "hm", Some("hmh"), FALSE, "MacrosOnly")>>, {"normal"}, FALSE,
        {"needs_panic_runtime", "needs_allocator"}),
    \* m: a proc-macro crate built for the host, found by the proc-macro fallback
    Lib("/p/libm.so", "Crate", "dylib", "m", "hm", StableCrateIdNew("m", FALSE, ""), TRUE,
        <<CrateDep("zz", "hz", None, FALSE, "Explicit")>>, {"host_pm"}, TRUE, {}),
    \* m as built for the target (dual proc macros), and its host companion,
    \* which the search for the target finds as well (the host is the target)
    Lib("/t/libm.rmeta", "Crate", "rmeta", "m", "hm", StableCrateIdNew("m", FALSE, ""), TRUE,
        <<>>, {"target_pm"}, FALSE, {}),
    Lib("/h/libm.so", "Crate", "dylib", "m", "hmh", StableCrateIdNew("m", FALSE, "host"), TRUE,
        <<>>, {"host_pm", "target_pm"}, TRUE, {}),
    \* n: a proc-macro crate without dependencies
    Lib("/p/libn.so", "Crate", "dylib", "n", "hn", StableCrateIdNew("n", FALSE, ""), TRUE,
        <<>>, {"host_pm"}, TRUE, {}),
    \* d: depends on b and on a crate that is nowhere to be found
    Lib("/p/libd.rlib", "Crate", "rlib", "d", "hd", StableCrateIdNew("d", FALSE, ""), FALSE,
        <<CrateDep("b", "hb", None, FALSE, "Implicit"),
          CrateDep("zz", "hz", None, FALSE, "Explicit")>>, {"normal"}, FALSE, {}),
    \* e: depends on b, like a, and publicly on a
    Lib("/p/libe.rlib", "Crate", "rlib", "e", "he", StableCrateIdNew("e", FALSE, ""), FALSE,
        <<CrateDep("b", "hb", None, FALSE, "Explicit"),
          CrateDep("a", "ha", None, FALSE, "Explicit")>>, {"normal"}, FALSE,
        {"has_alloc_error_handler"}),
    \* k: a proc-macro crate whose dylib lacks the declarations symbol
    Lib("/p/libk.so", "Crate", "dylib", "k", "hk", StableCrateIdNew("k", FALSE, ""), TRUE,
        <<>>, {"host_pm"}, FALSE, {}),
    Lib("/p/libcore.rlib", "Crate", "rlib", "core", "hcore", StableCrateIdNew("core", FALSE, ""),
        FALSE, <<>>, {"normal"}, FALSE, {"has_default_lib_allocator"}),
    Lib("/p/libcompiler_builtins.rlib", "Crate", "rlib", "compiler_builtins", "hcb",
        StableCrateIdNew("compiler_builtins", FALSE, ""), FALSE, <<>>, {"normal"}, FALSE,
        {"compiler_builtins"}),
    Lib("/p/libpanic_unwind.rlib", "Crate", "rlib", "panic_unwind", "hpu",
        StableCrateIdNew("panic_unwind", FALSE, ""), FALSE, <<>>, {"normal"}, FALSE,
        {"panic_runtime", "unwind"}),
    \* x and y: each lists the other as a dependency; x depends on b and y on
    \* wasm_bindgen too
    Lib("/p/libx.rlib", "Crate", "rlib", "x", "hx", StableCrateIdNew("x", FALSE, ""), FALSE,
        <<CrateDep("y", "hy", None, FALSE, "Explicit"),
          CrateDep("b", "hb", None, FALSE, "Explicit")>>, {"normal"}, FALSE, {}),
    Lib("/p/liby.rlib", "Crate", "rlib", "y", "hy", StableCrateIdNew("y", FALSE, ""), FALSE,
        <<CrateDep("wasm_bindgen", "hwb", None, FALSE, "Explicit"),
          CrateDep("x", "hx", None, FALSE, "Explicit")>>, {"normal"}, FALSE, {}),
    Lib("/p/libwasm_bindgen.rlib", "Crate", "rlib", "wasm_bindgen", "hwb",
        StableCrateIdNew("wasm_bindgen", FALSE, ""), FALSE, <<>>, {"normal"}, FALSE, {}),
    \* panic_abort: one build that is not marked as a panic runtime, and one
    \* that is a panic runtime for the strategy Unwind
    Lib("/p/libpanic_abort.rlib", "Crate", "rlib", "panic_abort", "hpa",
        StableCrateIdNew("panic_abort", FALSE, ""), FALSE, <<>>, {"normal"}, FALSE, {"abort"}),
    Lib("/q/libpanic_abort.rlib", "Crate", "rlib", "panic_abort", "hpa2",
        StableCrateIdNew("panic_abort", FALSE, ""), FALSE, <<>>, {"normal"}, FALSE,
        {"panic_runtime", "unwind"}),
    \* f: depends publicly on e, and through e on b and a
    Lib("/p/libf.rlib", "Crate", "rlib", "f", "hf", StableCrateIdNew("f", FALSE, ""), FALSE,
        <<CrateDep("e", "he", None, FALSE, "Explicit")>>, {"normal"}, FALSE, {})
>>

(* the crate names the local crate refers to: by `extern crate`, by a path *)
(* through the extern prelude, and by a speculative path lookup            *)
Names == {"a", "b", "c", "d", "e", "m", "n", "k", "q", "caf\\u{e9}"}
PathNames == {"b", "c", "n", "w"}
MaybePathNames == {"a", "d", "f", "m", "x", "caf\\u{e9}"}

(* CrateSource of a library: the file the locator found, tagged with its path kind *)
SourceOf(lib) ==
    [dylib |-> IF lib.ftype = "dylib" THEN Some(<<lib.path, lib.pkind>>) ELSE None,
     rlib  |-> IF lib.ftype = "rlib"  THEN Some(<<lib.path, lib.pkind>>) ELSE None,
     rmeta |-> IF lib.ftype = "rmeta" THEN Some(<<lib.path, lib.pkind>>) ELSE None]

----------------------------------------------------------------------------
(* Session options *)

(* --extern entries: files is the set of paths of `name=path`, each with its *)
(* canonicalized form; empty for a pathless `--extern name`.                 *)
(* nounused_dep: the `nounused:` modifier (unset unless said otherwise)       *)
ExternEntry(is_private_dep, force, files) ==
    [is_private_dep |-> is_private_dep, force |-> force, files |-> files,
     nounused_dep |-> FALSE]

ExternPath(orig, canon) == [orig |-> orig, canon |-> canon]

(* CanonicalizedPath::canonicalized *)
Canonicalized(l) == l.canon

NoExterns == [x \in {} |-> None]

ExternsPrivC ==
    [x \in {"c"} |-> ExternEntry(TRUE, TRUE, {ExternPath("./libc.rlib", "/p/libc.rlib")})]
ExternsPathB ==
    [x \in {"b"} |-> ExternEntry(FALSE, FALSE, {ExternPath("/p/../p/libb.rlib", "/p/libb.rlib")})]
ExternsPrivA == [x \in {"a"} |-> ExternEntry(TRUE, FALSE, {})]
ExternsPrivAF == [x \in {"a", "f"} |-> ExternEntry(TRUE, FALSE, {})]
(* --extern nounused:e=/p/libe.rlib --extern priv:f=/p/libf.rlib            *)
(* --extern q=/p/libq.rlib, the last a file that does not exist             *)
ExternsPrivFPublicE ==
    [x \in {"e", "f", "q"} |->
        CASE x = "e" -> [ExternEntry(FALSE, FALSE, {ExternPath("/p/libe.rlib", "/p/libe.rlib")})
                            EXCEPT !.nounused_dep = TRUE]
          [] x = "f" -> ExternEntry(TRUE, FALSE, {ExternPath("/p/libf.rlib", "/p/libf.rlib")})
          [] x = "q" -> ExternEntry(FALSE, FALSE, {ExternPath("/p/libq.rlib", "/p/libq.rlib")})]

(* --wasm-proc-macro name=path; readable: whether fs::read(path) succeeds *)
WasmEntry(file_name, path, readable) ==
    [file_name |-> file_name, path |-> path, readable |-> readable]

WasmW == WasmEntry("w", "/w/w.wasm", TRUE)
WasmV == WasmEntry("v", "/w/v.wasm", TRUE)
WasmW2 == WasmEntry("w", "/w/w2.wasm", TRUE)
WasmX == WasmEntry("x", "/w/missing.wasm", FALSE)
WasmU == WasmEntry("u", "/w/u.wasm", TRUE)

(* the local crate: its name, crate type and -C metadata decide its StableCrateId *)
LocalApp == [name |-> "app", is_exe |-> TRUE, metadata |-> ""]
LocalW == [name |-> "w", is_exe |-> FALSE, metadata |-> "wasm_proc_macro_w"]
LocalWasmBindgen == [name |-> "wasm_bindgen", is_exe |-> FALSE, metadata |-> ""]

(* what postprocess asks of the session and of the local crate: the crate's  *)
(* attributes, whether only rlibs are built, the panic strategy, and the     *)
(* profiler runtime to inject (None when no profiler runtime is needed)      *)
(* Further, unset unless said otherwise: the number of functions the local   *)
(* crate defines under the global-allocator and the alloc-error-handler      *)
(* symbol names, --json=unused-externs, and CARGO_PKG_VERSION_{MAJOR,MINOR,  *)
(* PATCH} as parsed from the environment.                                    *)
Post(krate_attrs, only_rlib, panic_strategy, profiler_runtime) ==
    [krate_attrs |-> krate_attrs, only_rlib |-> only_rlib,
     panic_strategy |-> panic_strategy, profiler_runtime |-> profiler_runtime,
     global_alloc_fns |-> 0, alloc_error_handler_fns |-> 0,
     json_unused_externs |-> FALSE, cargo_pkg_version |-> <<None, None, None>>]

PostPlain == Post({}, FALSE, "Unwind", None)

(* extern_names: the names of externs in iteration order.  ord: whether the *)
(* locator's search order yields the first or the last of several candidate *)
(* files.                                                                   *)
Session(externs, extern_names, wasm_proc_macros, dual_proc_macros, local, post, ord) ==
    [externs |-> externs, extern_names |-> extern_names,
     wasm_proc_macros |-> wasm_proc_macros, dual_proc_macros |-> dual_proc_macros,
     local |-> local, post |-> post, ord |-> ord]

Sessions == {
    Session(NoExterns, <<>>, <<WasmW, WasmU>>, FALSE, LocalApp, PostPlain, "first"),
    Session(NoExterns, <<>>, <<WasmW, WasmV>>, TRUE, LocalApp,
            [Post({"needs_panic_runtime"}, FALSE, "Unwind", Some("b"))
                EXCEPT !.global_alloc_fns = 1, !.alloc_error_handler_fns = 2], "last"),
    Session(ExternsPrivC, <<"c">>, <<WasmW, WasmW2>>, FALSE, LocalApp,
            Post({}, FALSE, "Abort", None), "last"),
    Session(ExternsPathB, <<"b">>, <<>>, TRUE, LocalApp,
            [Post({"no_core"}, TRUE, "Unwind", Some("a")) EXCEPT !.json_unused_externs = TRUE],
            "first"),
    Session(ExternsPrivAF, <<"a", "f">>, <<WasmW>>, FALSE, LocalW,
            Post({}, FALSE, "ImmediateAbort", None), "first"),
    Session(ExternsPathB, <<"b">>, <<WasmV, WasmX>>, FALSE, LocalWasmBindgen,
            [PostPlain EXCEPT !.cargo_pkg_version = <<Some(0), Some(2), Some(50)>>], "last"),
    Session(ExternsPrivFPublicE, <<"e", "f", "q">>, <<>>, FALSE, LocalApp,
            Post({"needs_panic_runtime"}, FALSE, "Abort", None), "first")
}

----------------------------------------------------------------------------
(* The crate store.  The operators below thread a record                    *)
(*   st = [metas, ids, panic, hist]                                         *)
(* through the calls of one top-level operation; ids is stable_crate_ids    *)
(* and hist the ghost history.                                              *)

HasCrateData(ms, cnum) == ms[cnum + 1].some

GetCrateData(ms, cnum) == ms[cnum + 1].val

(* the CrateNums iter_crate_data yields (in ascending order) *)
IterCrateData(ms) == {c \in 0 .. Len(ms) - 1 : ms[c + 1].some}

Res(st, ok, cnum, err) == [st |-> st, ok |-> ok, cnum |-> cnum, err |-> err]

Panic(st, msg) == Res([st EXCEPT !.panic = msg], FALSE, -1, "panic")

SetCrateData(st, cnum, data) ==
    IF st.metas[cnum + 1].some
    THEN [st EXCEPT !.panic = "Overwriting crate metadata entry"]
    ELSE [st EXCEPT !.metas[cnum + 1] = Some(data),
                    !.hist.n_set = @ + 1]

(* TyCtxt::create_crate_num: a fresh CrateNum for a new id, Err(existing) for *)
(* an id that is already interned.                                            *)
CreateCrateNum(ids, sid) ==
    IF \E i \in 1 .. Len(ids) : ids[i] = sid
    THEN [ok |-> FALSE, cnum |-> (CHOOSE i \in 1 .. Len(ids) : ids[i] = sid) - 1]
    ELSE [ok |-> TRUE, cnum |-> Len(ids)]

(* intern_stable_crate_id handing out a fresh number for an id that a stored *)
(* crate has already                                                        *)
InternFreshOverStored(st, root) ==
    LET r == CreateCrateNum(st.ids, root.sid)
    IN  IF r.ok \/ st.metas[r.cnum + 1].some
        THEN Res([st EXCEPT !.ids = Append(@, root.sid),
                            !.metas = Append(@, None),
                            !.hist.intern_log = Append(@, Len(st.ids)),
                            !.hist.reserved = @ \cup {Len(st.ids)}],
                 TRUE, Len(st.ids), "")
        ELSE Res(st, FALSE, r.cnum, "NotFound")

(* the map_err taking every slot without metadata for the local crate's *)
InternErrorEmptyIsLocal(ms, existing) ==
    IF ms[existing + 1].some THEN "StableCrateIdCollision" ELSE "SymbolConflictsCurrent"

(* the map_err closure of intern_stable_crate_id *)
InternError(ms, existing) ==
    IF existing = LOCAL_CRATE THEN "SymbolConflictsCurrent"
    ELSE IF ms[existing + 1].some THEN "StableCrateIdCollision"
    ELSE "NotFound"

InternStableCrateId(st, root) ==
    IF Len(st.metas) # Len(st.ids)
    THEN Panic(st, "assertion failed: metas.len() == stable_crate_ids.len()")
    ELSE LET r == CreateCrateNum(st.ids, root.sid)
         IN  IF r.ok
             THEN Res([st EXCEPT !.ids = Append(@, root.sid),
                                 !.metas = Append(@, None),
                                 !.hist.intern_log = Append(@, r.cnum),
                                 !.hist.reserved = @ \cup {r.cnum}],
                      TRUE, r.cnum, "")
             ELSE Res([st EXCEPT !.hist.collided = @ \cup {<<root.name, root.hash>>},
                                 !.hist.intern_failed =
                                     @ \cup {[name |-> root.name, sid |-> root.sid,
                                              existing |-> r.cnum,
                                              err |-> InternError(st.metas, r.cnum),
                                              other |-> IF st.metas[r.cnum + 1].some
                                                        THEN st.metas[r.cnum + 1].val.name
                                                        ELSE ""]}],
                      FALSE, r.cnum, InternError(st.metas, r.cnum))

----------------------------------------------------------------------------
(* CrateOrigin *)

OriginExtern == [tag |-> "Extern"]
OriginInjected == [tag |-> "Injected"]
OriginIndirect(parent_private, dep) ==
    [tag |-> "IndirectDependency", parent_private |-> parent_private, dep |-> dep]

OriginDep(origin) ==
    IF origin.tag = "IndirectDependency" THEN Some(origin.dep) ELSE None

(* CrateOrigin::private_dep from the dependency edge alone *)
OriginPrivateDepOfEdgeAlone(origin) ==
    IF origin.tag = "IndirectDependency" THEN Some(origin.dep.is_private) ELSE None

OriginPrivateDep(origin) ==
    IF origin.tag = "IndirectDependency"
    THEN Some(origin.dep.is_private \/ origin.parent_private)
    ELSE None

----------------------------------------------------------------------------
(* The locator (an external collaborator): which library of the catalog it  *)
(* returns for a name, an optional hash and a mode.  With several            *)
(* candidates, ord says whether the search order yields the first or the     *)
(* last of them.                                                             *)

CrateLocatorNew(name, hash, path_kind) ==
    [name |-> name, hash |-> hash, mode |-> "normal", path_kind |-> path_kind]

ForTargetProcMacro(locator) == [locator EXCEPT !.mode = "target_pm"]

ForProcMacro(locator) == [locator EXCEPT !.mode = "host_pm"]

ExactPaths(externs, locator) ==
    IF ~locator.hash.some /\ locator.name \in DOMAIN externs
    THEN {Canonicalized(l) : l \in externs[locator.name].files}
    ELSE {}

(* the files of the catalog that satisfy the locator, exact being the paths *)
(* of the --extern entry that the search is restricted to (if any); a      *)
(* proc-macro crate is accepted in the proc-macro modes only               *)
Matching(locator, exact) ==
    {i \in 1 .. Len(Catalog) :
        /\ Catalog[i].name = locator.name
        /\ locator.mode \in Catalog[i].modes
        /\ Catalog[i].pm = (locator.mode # "normal")
        /\ locator.hash.some => Catalog[i].hash = locator.hash.val
        /\ exact # {} => Catalog[i].path \in exact}

Candidates(externs, locator) == Matching(locator, ExactPaths(externs, locator))

Pick(cands, ord) ==
    IF cands = {} THEN None
    ELSE Some(Catalog[IF ord = "first" THEN Min(cands) ELSE Max(cands)])

MaybeLoadLibraryCrate(externs, locator, ord) == Pick(Candidates(externs, locator), ord)

----------------------------------------------------------------------------
(* existing_match *)

SourcePaths(source) ==
    {s.val[1] : s \in {x \in {source.dylib, source.rlib, source.rmeta} : x.some}}

PrevKind(source) ==
    IF source.dylib.some THEN source.dylib.val[2]
    ELSE IF source.rlib.some THEN source.rlib.val[2]
    ELSE source.rmeta.val[2]

(* the body of the loop without the --extern arm: every probe without a     *)
(* hash is decided by the path kind                                          *)
ExistingMatchAcceptsByKind(externs, data, name, hash, kind) ==
    /\ data.name = name
    /\ IF hash.some THEN hash.val = data.hash
       ELSE PathKindMatches(kind, PrevKind(data.source))

ExistingMatchAccepts(externs, data, name, hash, kind) ==
    /\ data.name = name
    /\ IF hash.some
       THEN hash.val = data.hash
       ELSE IF name \in DOMAIN externs
            THEN \E l \in externs[name].files : Canonicalized(l) \in SourcePaths(data.source)
            ELSE PathKindMatches(kind, PrevKind(data.source))

(* the last hit in iter_crate_data order instead of the first *)
LastOf(hits) == IF hits = {} THEN None ELSE Some(Max(hits))

FirstOf(hits) == IF hits = {} THEN None ELSE Some(Min(hits))

ExistingMatch(ms, externs, name, hash, kind) ==
    FirstOf({c \in IterCrateData(ms) :
                ExistingMatchAccepts(externs, GetCrateData(ms, c), name, hash, kind)})

----------------------------------------------------------------------------
(* is_private_dep *)

(* is_private_dep with (None, None) falling into the private arm *)
IsPrivateDepUnlessSaidPublic(externs, name, private_dep, origin) ==
    \/ origin.tag = "Injected"
    \/ ~(\/ name \in DOMAIN externs /\ ~externs[name].is_private_dep
         \/ private_dep = Some(FALSE))

IsPrivateDep(externs, name, private_dep, origin) ==
    IF origin.tag = "Injected" THEN TRUE
    ELSE LET extern_private ==
                 IF name \in DOMAIN externs THEN Some(externs[name].is_private_dep) ELSE None
         IN  IF \/ extern_private = Some(FALSE)
                \/ private_dep = Some(FALSE)
                \/ (extern_private = None /\ private_dep = None)
             THEN FALSE
             ELSE TRUE

----------------------------------------------------------------------------
(* load and load_proc_macro: they read the store and change nothing *)

LoadResult(tag, cnum, lib, host) ==
    [tag |-> tag, cnum |-> cnum, lib |-> lib, host |-> host]

LoadNone == LoadResult("None", -1, None, None)
LoadPanic(msg) == LoadResult("Panic", -1, Some(msg), None)

(* the stored crates with the name and hash of the library just located *)
SameNameAndHash(ms, root) ==
    {c \in IterCrateData(ms) :
        /\ GetCrateData(ms, c).name = root.name
        /\ GetCrateData(ms, c).hash = root.hash}

(* load without the duplicate collapse *)
LoadLocatedNoCollapse(locator, library, prev) == LoadResult("Loaded", -1, library, None)

(* the `match result` arm of load for a located library *)
LoadLocated(locator, library, prev) ==
    IF prev = {} THEN LoadResult("Loaded", -1, library, None)
    ELSE IF locator.hash.some
         THEN LoadPanic("assertion failed: locator.hash.is_none()")
         ELSE LoadResult("Previous", Min(prev), None, None)

LoadLibrary(ms, locator, library) ==
    IF ~library.some THEN LoadNone
    ELSE LoadLocated(locator, library, SameNameAndHash(ms, library.val))

Load(ms, s, locator) ==
    LoadLibrary(ms, locator, MaybeLoadLibraryCrate(s.externs, locator, s.ord))

(* load_proc_macro with dual_proc_macros: the host library that goes with *)
(* the target library                                                     *)
LockStep(target_result, host_result) ==
    CASE host_result.tag = "None" -> LoadNone
      [] host_result.tag = "Panic" -> host_result
      [] host_result.tag = "Previous" ->
           LoadPanic("host and target proc macros must be loaded in lock-step")
      [] host_result.tag = "Loaded" ->
           LoadResult("Loaded", -1, target_result.lib, host_result.lib)

LoadHost(ms, s, locator, host_hash, target_result) ==
    IF target_result.tag # "Loaded" THEN target_result
    ELSE LockStep(target_result,
                  Load(ms, s, [ForProcMacro(locator) EXCEPT !.hash = host_hash]))

LoadProcMacro(ms, s, locator, host_hash) ==
    IF s.dual_proc_macros
    THEN LoadHost(ms, s, locator, host_hash, Load(ms, s, ForTargetProcMacro(locator)))
    ELSE Load(ms, s, ForProcMacro(locator))

----------------------------------------------------------------------------
(* The resolver: maybe_resolve_crate, register_crate, resolve_crate_deps *)

(* CrateMetadata::new *)
CrateMetadataNew(lib, raw_proc_macros, cnum, cnum_map, dep_kind, private_dep, host_hash) ==
    [name |-> lib.name, hash |-> lib.hash, stable_crate_id |-> lib.sid,
     source |-> SourceOf(lib), is_proc_macro_crate |-> lib.pm,
     raw_proc_macros |-> raw_proc_macros, cnum |-> cnum, dependencies |-> cnum_map,
     dep_kind |-> dep_kind, private_dep |-> private_dep, host_hash |-> host_hash,
     attrs |-> lib.attrs, crate_deps |-> lib.deps]

(* CrateMetadata::update_and_private_dep *)
UpdateAndPrivateDep(data, private_dep) ==
    [data EXCEPT !.private_dep = @ /\ private_dep]

(* the Previous arm assigning the requested kind instead of the maximum *)
UpdatePreviousAssignKind(data, dep_kind, private_dep) ==
    UpdateAndPrivateDep(
        [data EXCEPT !.dep_kind = IF data.is_proc_macro_crate THEN "MacrosOnly" ELSE dep_kind],
        private_dep)

(* the Previous arm assigning the observed privacy instead of and-ing it *)
UpdatePreviousAssignPrivate(data, dep_kind, private_dep) ==
    [data EXCEPT !.dep_kind = DepKindMax(@, IF data.is_proc_macro_crate THEN "MacrosOnly"
                                            ELSE dep_kind),
                 !.private_dep = private_dep]

(* the LoadResult::Previous arm of maybe_resolve_crate, applied to the row *)
UpdatePrevious(data, dep_kind, private_dep) ==
    LET kind == IF data.is_proc_macro_crate THEN "MacrosOnly" ELSE dep_kind
    IN  UpdateAndPrivateDep([data EXCEPT !.dep_kind = DepKindMax(@, kind)], private_dep)

(* dlsym_proc_macros on the native path: the declarations symbol of the dylib *)
DlsymProcMacros(lib) ==
    IF lib.dlsym THEN [ok |-> TRUE, err |-> ""] ELSE [ok |-> FALSE, err |-> "DlSym"]

Abandon(st, cnum) == [st EXCEPT !.hist.abandoned = @ \cup {cnum}]

(* the proc-macro fallback without `dep_kind = CrateDepKind::MacrosOnly` *)
LocateLoadedKeepKind(ms, s, locator, host_hash, dep_kind, result) ==
    IF result.tag # "None"
    THEN [result |-> result, kind |-> dep_kind, via |-> "load"]
    ELSE [result |-> LoadProcMacro(ms, s, locator, host_hash), kind |-> dep_kind,
          via |-> "fallback"]

(* maybe_resolve_crate giving up when the first load returned None *)
LocateLoadedWithoutFallback(ms, s, locator, host_hash, dep_kind, result) ==
    [result |-> result, kind |-> dep_kind, via |-> "load"]

(* maybe_resolve_crate once the first load returned result: the proc-macro *)
(* fallback; kind is dep_kind as it stands afterwards, via says which of   *)
(* the three lookups produced the result (ghost)                           *)
LocateLoaded(ms, s, locator, host_hash, dep_kind, result) ==
    IF result.tag # "None"
    THEN [result |-> result, kind |-> dep_kind, via |-> "load"]
    ELSE [result |-> LoadProcMacro(ms, s, locator, host_hash), kind |-> "MacrosOnly",
          via |-> "fallback"]

(* maybe_resolve_crate after the existing-match probe *)
LocateNew(ms, s, locator, host_hash, dep_kind, existing) ==
    IF existing.some
    THEN [result |-> LoadResult("Previous", existing.val, None, None), kind |-> dep_kind,
          via |-> "existing"]
    ELSE LocateLoaded(ms, s, locator, host_hash, dep_kind, Load(ms, s, locator))

LocateDep(ms, s, name, dep_kind, hash, host_hash, path_kind) ==
    LocateNew(ms, s, CrateLocatorNew(name, hash, path_kind), host_hash, dep_kind,
              ExistingMatch(ms, s.externs, name, hash, path_kind))

(* maybe_resolve_crate up to `result`: the existing-match probe, the load and *)
(* the proc-macro fallback                                                    *)
Locate(ms, s, name, dep_kind, origin) ==
    IF OriginDep(origin).some
    THEN LocateDep(ms, s, name, dep_kind, Some(OriginDep(origin).val.hash),
                   OriginDep(origin).val.host_hash, "Dependency")
    ELSE LocateDep(ms, s, name, dep_kind, None, None, "Crate")

(* register_crate storing the metadata before the proc macros are looked up *)
FinishRegisterSetBeforeDlsym(deps, s, host_lib, lib, cnum, dep_kind, private_dep) ==
    IF ~deps.res.ok
    THEN IF deps.res.st.panic # "" THEN deps.res
         ELSE Res(Abandon(deps.res.st, cnum), FALSE, -1, deps.res.err)
    ELSE
    LET st2 == SetCrateData(deps.res.st, cnum,
                            CrateMetadataNew(lib, lib.pm, cnum, deps.cnum_map, dep_kind,
                                             private_dep,
                                             IF host_lib.some THEN Some(host_lib.val.hash)
                                             ELSE None))
        dlsym_lib == IF host_lib.some THEN host_lib.val ELSE lib
    IN  IF st2.panic # "" THEN Res(st2, FALSE, -1, "panic")
        ELSE IF lib.pm /\ ~SourceOf(dlsym_lib).dylib.some
        THEN Panic(st2, "no dylib for a proc-macro crate")
        ELSE IF lib.pm /\ ~DlsymProcMacros(dlsym_lib).ok
        THEN Res(Abandon(st2, cnum), FALSE, -1, DlsymProcMacros(dlsym_lib).err)
        ELSE Res(st2, TRUE, cnum, "")

(* the end of register_crate, once the dependencies are resolved: the proc  *)
(* macros are looked up, the metadata built and stored                      *)
FinishRegister(deps, s, host_lib, lib, cnum, dep_kind, private_dep) ==
    IF ~deps.res.ok
    THEN IF deps.res.st.panic # "" THEN deps.res
         ELSE Res(Abandon(deps.res.st, cnum), FALSE, -1, deps.res.err)
    ELSE
    LET st2 == deps.res.st
        host_hash == IF host_lib.some THEN Some(host_lib.val.hash) ELSE None
        dlsym_lib == IF host_lib.some THEN host_lib.val ELSE lib
        crate_metadata == CrateMetadataNew(lib, lib.pm, cnum, deps.cnum_map, dep_kind,
                                           private_dep, host_hash)
    IN  IF lib.pm /\ ~SourceOf(dlsym_lib).dylib.some
        THEN Panic(st2, "no dylib for a proc-macro crate")
        ELSE IF lib.pm /\ ~DlsymProcMacros(dlsym_lib).ok
        THEN Res(Abandon(st2, cnum), FALSE, -1, DlsymProcMacros(dlsym_lib).err)
        ELSE IF SetCrateData(st2, cnum, crate_metadata).panic # ""
        THEN Res(SetCrateData(st2, cnum, crate_metadata), FALSE, -1, "panic")
        ELSE Res(SetCrateData(st2, cnum, crate_metadata), TRUE, cnum, "")

RECURSIVE MaybeResolveCrate(_, _, _, _, _)
RECURSIVE ResolveCrateDeps(_, _, _, _, _, _, _, _)

(* resolve_crate_deps going on after a dependency failed to resolve *)
ResolveNextDepKeepGoing(r, s, lib, krate, dep_kind, parent_is_private, i, crate_num_map) ==
    IF r.st.panic # "" THEN [res |-> r, cnum_map |-> <<>>]
    ELSE ResolveCrateDeps(r.st, s, lib, krate, dep_kind, parent_is_private, i,
                          Append(crate_num_map, r.cnum))

(* resolve_crate_deps putting each CrateNum right behind the crate's own *)
ResolveNextDepInsertsFirst(r, s, lib, krate, dep_kind, parent_is_private, i, crate_num_map) ==
    IF ~r.ok THEN [res |-> r, cnum_map |-> <<>>]
    ELSE ResolveCrateDeps(r.st, s, lib, krate, dep_kind, parent_is_private, i,
                          <<crate_num_map[1], r.cnum>> \o Tail(crate_num_map))

(* ghost: the history keeps, in order, every result maybe_resolve_crate     *)
(* returned to the loop of resolve_crate_deps(krate), for its i-th          *)
(* dependency                                                               *)
DepResolved(r, krate, i, name) ==
    [r EXCEPT !.st.hist.dep_log =
        Append(@, [krate |-> krate, i |-> i, name |-> name, ok |-> r.ok, cnum |-> r.cnum,
                   err |-> r.err])]

(* resolve_crate_deps, after dependency i - 1 resolved to r *)
ResolveNextDep(r, s, lib, krate, dep_kind, parent_is_private, i, crate_num_map) ==
    IF ~r.ok THEN [res |-> r, cnum_map |-> <<>>]
    ELSE ResolveCrateDeps(r.st, s, lib, krate, dep_kind, parent_is_private, i,
                          Append(crate_num_map, r.cnum))

(* the loop of resolve_crate_deps from dependency i on *)
ResolveCrateDeps(st, s, lib, krate, dep_kind, parent_is_private, i, crate_num_map) ==
    IF lib.pm THEN [res |-> Res(st, TRUE, krate, ""), cnum_map |-> <<>>]
    ELSE IF i > Len(lib.deps)
    THEN [res |-> Res(st, TRUE, krate, ""), cnum_map |-> crate_num_map]
    ELSE ResolveNextDep(
             DepResolved(
                 MaybeResolveCrate(st, s, lib.deps[i].name,
                                   IF dep_kind = "MacrosOnly" THEN "MacrosOnly"
                                   ELSE lib.deps[i].kind,
                                   OriginIndirect(parent_is_private, lib.deps[i])),
                 krate, i, lib.deps[i].name),
             s, lib, krate, dep_kind, parent_is_private, i + 1, crate_num_map)

(* register_crate with a CrateNumMap that starts out empty *)
RegisterInternedMapWithoutSelf(feed, s, host_lib, lib, dep_kind, private_dep) ==
    IF ~feed.ok THEN feed
    ELSE FinishRegister(
             ResolveCrateDeps(feed.st, s, lib, feed.cnum, dep_kind, private_dep, 1, <<>>),
             s, host_lib, lib, feed.cnum, dep_kind, private_dep)

(* register_crate storing the crate's row before its dependencies are   *)
(* resolved, and completing the row afterwards                           *)
RegisterInternedStoredFirst(feed, s, host_lib, lib, dep_kind, private_dep) ==
    IF ~feed.ok THEN feed
    ELSE LET early == [feed.st EXCEPT !.metas[feed.cnum + 1] =
                          Some(CrateMetadataNew(lib, lib.pm, feed.cnum, <<feed.cnum>>,
                                                dep_kind, private_dep, None))]
             deps == ResolveCrateDeps(early, s, lib, feed.cnum, dep_kind, private_dep, 1,
                                      <<feed.cnum>>)
         IN  IF ~deps.res.ok THEN deps.res
             ELSE Res([deps.res.st EXCEPT
                           !.metas[feed.cnum + 1].val.dependencies = deps.cnum_map],
                      TRUE, feed.cnum, "")

(* register_crate after intern_stable_crate_id returned feed *)
RegisterInterned(feed, s, host_lib, lib, dep_kind, private_dep) ==
    IF ~feed.ok THEN feed
    ELSE FinishRegister(
             ResolveCrateDeps(feed.st, s, lib, feed.cnum, dep_kind, private_dep, 1,
                              <<feed.cnum>>),
             s, host_lib, lib, feed.cnum, dep_kind, private_dep)

RegisterCrate(st, s, host_lib, origin, lib, dep_kind, name, private_dep) ==
    RegisterInterned(InternStableCrateId(st, lib), s, host_lib, lib, dep_kind,
                     IsPrivateDep(s.externs, name, private_dep, origin))

(* the match on `result` that ends maybe_resolve_crate *)
Resolved(st, s, name, origin, found) ==
    CASE found.result.tag = "None" -> Res(st, FALSE, -1, "NotFound")
      [] found.result.tag = "Panic" -> Panic(st, found.result.lib.val)
      [] found.result.tag = "Previous" ->
           Res([st EXCEPT !.metas[found.result.cnum + 1] =
                    Some(UpdatePrevious(
                             GetCrateData(st.metas, found.result.cnum), found.kind,
                             IsPrivateDep(s.externs, name, OriginPrivateDep(origin), origin))),
                          !.hist.collapsed =
                              IF found.via = "existing" THEN @ ELSE @ \cup {found.result.cnum}],
               TRUE, found.result.cnum, "")
      [] found.result.tag = "Loaded" ->
           RegisterCrate([st EXCEPT !.hist.dup_registered =
                              @ \/ SameNameAndHash(st.metas, found.result.lib.val) # {}],
                         s, found.result.host, origin, found.result.lib.val, found.kind,
                         name, OriginPrivateDep(origin))

(* the hash and the path kind maybe_resolve_crate derives from the origin *)
OriginHash(origin) ==
    IF OriginDep(origin).some THEN Some(OriginDep(origin).val.hash) ELSE None

OriginPathKind(origin) == IF OriginDep(origin).some THEN "Dependency" ELSE "Crate"

(* ghost: what the call of maybe_resolve_crate(name, .., origin) that took  *)
(* the store from st to r.st adds to the history.  resolved and matched     *)
(* keep every CrateNum returned for a (name, hash) and by existing_match    *)
(* for its arguments; reresolved and rematched describe each call whose     *)
(* (name, hash), or whose existing_match arguments, had returned a CrateNum *)
(* before; n_probes counts the calls that went on to probe the store;       *)
(* reached keeps, for every call that returned a CrateNum, the origin it    *)
(* came with, whether it registered the crate (first), and the crate's      *)
(* private_dep as the call left it; dep_log keeps the result of every call  *)
(* that was not made for a dependency, as the result of dependency 0 of no  *)
(* crate.                                                                   *)
Observed(st, s, name, origin, em, r) ==
    [r EXCEPT
       !.st.hist.n_probes = @ + 1,
       !.st.hist.dep_log =
           IF origin.tag = "IndirectDependency" THEN @
           ELSE Append(@, [krate |-> -1, i |-> 0, name |-> name, ok |-> r.ok,
                           cnum |-> r.cnum, err |-> r.err]),
       !.st.hist.reached =
           IF r.ok
           THEN @ \cup {[name |-> name, cnum |-> r.cnum, tag |-> origin.tag,
                         parent_private |-> origin.tag = "IndirectDependency"
                                               /\ origin.parent_private,
                         private_dep |-> GetCrateData(r.st.metas, r.cnum).private_dep,
                         first |-> r.cnum \notin IterCrateData(st.metas),
                         dep_private |-> origin.tag = "IndirectDependency"
                                            /\ origin.dep.is_private]}
           ELSE @,
       !.st.hist.resolved =
           IF r.ok THEN @ \cup {<<name, OriginHash(origin), r.cnum>>} ELSE @,
       !.st.hist.matched =
           IF em.some
           THEN @ \cup {<<name, OriginHash(origin), OriginPathKind(origin), em.val>>}
           ELSE @,
       !.st.hist.reresolved =
           IF \E x \in st.hist.resolved : x[1] = name /\ x[2] = OriginHash(origin)
           THEN @ \cup {[name |-> name, hash |-> OriginHash(origin),
                         same |-> r.ok /\ \A x \in st.hist.resolved :
                                     x[1] = name /\ x[2] = OriginHash(origin) => x[3] = r.cnum,
                         allocated |-> Len(r.st.ids) # Len(st.ids)
                                           \/ Len(r.st.metas) # Len(st.metas),
                         deps_changed |->
                             \/ IterCrateData(r.st.metas) # IterCrateData(st.metas)
                             \/ \E c \in IterCrateData(st.metas) :
                                    GetCrateData(r.st.metas, c).dependencies #
                                        GetCrateData(st.metas, c).dependencies,
                         between |-> Len(st.metas) - 1 -
                                       Max({x[3] : x \in {y \in st.hist.resolved :
                                               y[1] = name /\ y[2] = OriginHash(origin)}}),
                         matched |-> em.some]}
           ELSE @,
       !.st.hist.rematched =
           IF \E x \in st.hist.matched :
                  /\ x[1] = name /\ x[2] = OriginHash(origin)
                  /\ x[3] = OriginPathKind(origin)
           THEN @ \cup {[name |-> name, hash |-> OriginHash(origin),
                         same |-> em.some /\ \A x \in st.hist.matched :
                                     (/\ x[1] = name /\ x[2] = OriginHash(origin)
                                      /\ x[3] = OriginPathKind(origin)) => x[4] = em.val]}
           ELSE @]

(* maybe_resolve_crate without the check of the name *)
(* ghost: the history keeps, for every call of maybe_resolve_crate that      *)
(* missed the existing match, what the first load returned (first), which   *)
(* lookup produced `result` and what it was, dep_kind as it stood           *)
(* afterwards and whether a call that returned a crate had asked for        *)
(* another one (replaced), the call's result r, the number of CrateNums     *)
(* allocated during the call, and the dep_kind of the crate the call        *)
(* registered (row_kind; "" when it registered none)                        *)
Located(st, s, name, dep_kind, origin, found, r) ==
    IF found.via = "existing" THEN r
    ELSE [r EXCEPT !.st.hist.located =
            @ \cup {[replaced |-> r.ok /\ found.kind # dep_kind,
                     first |-> Load(st.metas, s,
                                    CrateLocatorNew(name, OriginHash(origin),
                                                    OriginPathKind(origin))).tag,
                     via |-> found.via, tag |-> found.result.tag, kind |-> found.kind,
                     ok |-> r.ok, err |-> r.err,
                     allocated |-> Len(r.st.ids) - Len(st.ids),
                     row_kind |-> IF r.ok /\ found.result.tag = "Loaded"
                                  THEN GetCrateData(r.st.metas, r.cnum).dep_kind
                                  ELSE ""]}]

MaybeResolveCrateAnyName(st, s, name, dep_kind, origin) ==
    Observed(st, s, name, origin,
             ExistingMatch(st.metas, s.externs, name, OriginHash(origin),
                           OriginPathKind(origin)),
             Resolved(st, s, name, origin, Locate(st.metas, s, name, dep_kind, origin)))

MaybeResolveCrate(st, s, name, dep_kind, origin) ==
    IF ~IsAscii(name) THEN Res(st, FALSE, -1, "NonAsciiName")
    ELSE Observed(st, s, name, origin,
                  ExistingMatch(st.metas, s.externs, name, OriginHash(origin),
                                OriginPathKind(origin)),
                  Located(st, s, name, dep_kind, origin,
                          Locate(st.metas, s, name, dep_kind, origin),
                          Resolved(st, s, name, origin,
                                   Locate(st.metas, s, name, dep_kind, origin))))

----------------------------------------------------------------------------
(* resolve_crate: the entry point that records the name as used and reports *)
(* a failure (after probing for `core` to word the diagnostic).             *)

(* the Err arm of resolve_crate *)
ReportFailure(r, s) ==
    IF r.ok \/ r.st.panic # "" THEN r
    ELSE Res(MaybeResolveCrate(r.st, s, "core", "Explicit", OriginExtern).st, FALSE, -1, r.err)

ResolveCrate(st, s, name, dep_kind, origin) ==
    CHOOSE out \in {ReportFailure(r, s) :
                        r \in {MaybeResolveCrate(st, s, name, dep_kind, origin)}} : TRUE

----------------------------------------------------------------------------
(* postprocess: the injectors.  They thread a record                        *)
(*   cx = [st, used, diag, ipr, allocator, unused_externs, run]             *)
(* of the store, used_extern_options, the reported errors,                  *)
(* injected_panic_runtime, the allocator fields of the store, its           *)
(* unused_externs list, and the record of this run of postprocess: the      *)
(* passes entered, the names resolve_crate was called with, the             *)
(* diagnostics emitted and the lints buffered, each in order.               *)

Diagnostic(kind, crate_name, other_crate_name) ==
    [kind |-> kind, crate_name |-> crate_name, other_crate_name |-> other_crate_name]

EmitErr(cx, kind, crate_name, other_crate_name) ==
    [cx EXCEPT !.diag = @ \cup {kind},
               !.run.emitted = Append(@, Diagnostic(kind, crate_name, other_crate_name))]

(* what resolve_crate(name, ..) leaves behind, r being its result *)
Injected(cx, name, r) ==
    [cx EXCEPT !.st = r.st,
               !.used = @ \cup {name},
               !.diag = IF r.ok \/ r.st.panic # "" THEN @ ELSE @ \cup {r.err},
               !.run.resolves = Append(@, name),
               !.run.emitted = IF r.ok \/ r.st.panic # "" THEN @
                               ELSE Append(@, Diagnostic(r.err, name, ""))]

RECURSIVE SanityFrom(_, _, _, _)
(* the sanity checks from the i-th on *)
SanityFrom(cx, data, required, i) ==
    IF i > Len(required) THEN cx
    ELSE SanityFrom(IF required[i][1] \in data.attrs THEN cx
                    ELSE EmitErr(cx, required[i][2], data.name, ""),
                    data, required, i + 1)

(* the sanity checks on an injected crate: required lists, in order, pairs  *)
(* <<attribute the crate must have, error emitted when it has not>>         *)
Sanity(cx, r, required) ==
    IF ~r.ok THEN cx
    ELSE SanityFrom(cx, GetCrateData(r.st.metas, r.cnum), required, 1)

InjectCompilerBuiltins(cx, s) ==
    IF cx.st.panic # "" THEN cx
    ELSE IF "compiler_builtins" \in s.post.krate_attrs \/ "no_core" \in s.post.krate_attrs
    THEN cx
    ELSE IF \E c \in IterCrateData(cx.st.metas) :
                "compiler_builtins" \in GetCrateData(cx.st.metas, c).attrs
    THEN cx
    ELSE CHOOSE out \in {Sanity(Injected(cx, "compiler_builtins", r), r,
                                 <<<<"compiler_builtins", "CrateNotCompilerBuiltins">>>>) :
                 r \in {ResolveCrate(cx.st, s, "compiler_builtins", "Explicit",
                                     OriginInjected)}} : TRUE

RECURSIVE InjectForcedExterns(_, _, _)
(* the loop of inject_forced_externs from the i-th extern on *)
InjectForcedExterns(cx, s, i) ==
    IF cx.st.panic # "" \/ i > Len(s.extern_names) THEN cx
    ELSE IF s.externs[s.extern_names[i]].force /\ s.extern_names[i] \notin cx.used
    THEN InjectForcedExterns(
             Injected(cx, s.extern_names[i],
                      ResolveCrate(cx.st, s, s.extern_names[i], "Explicit", OriginExtern)),
             s, i + 1)
    ELSE InjectForcedExterns(cx, s, i + 1)

InjectProfilerRuntime(cx, s) ==
    IF cx.st.panic # "" \/ ~s.post.profiler_runtime.some THEN cx
    ELSE CHOOSE out \in {Sanity(Injected(cx, s.post.profiler_runtime.val, r), r,
                                 <<<<"profiler_runtime", "NotProfilerRuntime">>>>) :
                 r \in {ResolveCrate(cx.st, s, s.post.profiler_runtime.val, "Implicit",
                                     OriginInjected)}} : TRUE

(* the unwinding runtime whatever the strategy *)
PanicRuntimeNameOfUnwind(strategy) == "panic_unwind"

PanicRuntimeName(strategy) == IF strategy = "Unwind" THEN "panic_unwind" ELSE "panic_abort"

PanicStrategyAttr(strategy) == IF strategy = "Unwind" THEN "unwind" ELSE "abort"

(* inject_panic_runtime once the runtime was resolved to r *)
PanicRuntimeInjected(cx, r, strategy) ==
    IF ~r.ok THEN cx
    ELSE [Sanity(cx, r, <<<<"panic_runtime", "CrateNotPanicRuntime">>,
                          <<PanicStrategyAttr(strategy), "NoPanicStrategy">>>>)
             EXCEPT !.ipr = Some(r.cnum)]

(* inject_panic_runtime loading the abort runtime for ImmediateAbort too *)
InjectPanicRuntimeForEveryStrategy(cx, s) ==
    IF cx.st.panic # "" \/ s.post.only_rlib THEN cx
    ELSE IF /\ "needs_panic_runtime" \notin s.post.krate_attrs
            /\ ~\E c \in IterCrateData(cx.st.metas) :
                   "needs_panic_runtime" \in GetCrateData(cx.st.metas, c).attrs
    THEN cx
    ELSE CHOOSE out \in {PanicRuntimeInjected(
                             Injected(cx, PanicRuntimeName(s.post.panic_strategy), r), r,
                             s.post.panic_strategy) :
                 r \in {ResolveCrate(cx.st, s, PanicRuntimeName(s.post.panic_strategy),
                                     "Implicit", OriginInjected)}} : TRUE

InjectPanicRuntime(cx, s) ==
    IF cx.st.panic # "" \/ s.post.only_rlib THEN cx
    ELSE IF /\ "needs_panic_runtime" \notin s.post.krate_attrs
            /\ ~\E c \in IterCrateData(cx.st.metas) :
                   "needs_panic_runtime" \in GetCrateData(cx.st.metas, c).attrs
    THEN cx
    ELSE IF s.post.panic_strategy = "ImmediateAbort" THEN cx
    ELSE CHOOSE out \in {PanicRuntimeInjected(
                             Injected(cx, PanicRuntimeName(s.post.panic_strategy), r), r,
                             s.post.panic_strategy) :
                 r \in {ResolveCrate(cx.st, s, PanicRuntimeName(s.post.panic_strategy),
                                     "Implicit", OriginInjected)}} : TRUE

----------------------------------------------------------------------------
(* inject_allocator_crate *)

(* the scan of the local crate for the functions of one symbol name: the    *)
(* flag it yields, and the error for a second definition                    *)
LocalAllocFns(cx, n, error) ==
    IF n >= 2 THEN EmitErr(cx, error, "this crate", "") ELSE cx

(* one provider found while `chosen` is the provider so far, the conflict   *)
(* naming the provider just found alone                                     *)
ProviderFoundForgetsFirst(acc, crate_name, error) ==
    IF acc.chosen.some
    THEN [chosen |-> Some(crate_name), cx |-> EmitErr(acc.cx, error, crate_name, crate_name)]
    ELSE [acc EXCEPT !.chosen = Some(crate_name)]

(* one provider found while `chosen` is the provider so far *)
ProviderFound(acc, crate_name, error) ==
    IF acc.chosen.some
    THEN [acc EXCEPT !.cx = EmitErr(acc.cx, error, crate_name, acc.chosen.val)]
    ELSE [acc EXCEPT !.chosen = Some(crate_name)]

RECURSIVE ScanProviders(_, _, _, _)
(* the loop over iter_crate_data looking for crates with the attribute,     *)
(* from CrateNum c on; acc = [chosen, cx]                                   *)
ScanProviders(acc, attr, error, c) ==
    IF c >= Len(acc.cx.st.metas) THEN acc
    ELSE ScanProviders(
             IF /\ HasCrateData(acc.cx.st.metas, c)
                /\ attr \in GetCrateData(acc.cx.st.metas, c).attrs
             THEN ProviderFound(acc, GetCrateData(acc.cx.st.metas, c).name, error)
             ELSE acc,
             attr, error, c + 1)

(* the kind chosen as if a provider had always been found *)
AllocatorKindOfAnyScan(chosen) == Some("Global")

AllocatorKindOf(chosen) == IF chosen.some THEN Some("Global") ELSE Some("Default")

(* the end of inject_allocator_crate, handler being the result of the scan  *)
(* for allocation-error handlers                                            *)
AllocErrorHandlerChosen(handler) ==
    [handler.cx EXCEPT !.allocator.alloc_error_handler_kind = AllocatorKindOf(handler.chosen)]

(* inject_allocator_crate once the global allocators were scanned *)
GlobalAllocatorChosen(global, s) ==
    AllocErrorHandlerChosen(
        ScanProviders(
            [chosen |-> IF global.cx.allocator.has_alloc_error_handler
                        THEN Some("this crate") ELSE None,
             cx |-> [(IF /\ ~global.chosen.some
                         /\ "default_lib_allocator" \notin s.post.krate_attrs
                         /\ ~\E c \in IterCrateData(global.cx.st.metas) :
                                "has_default_lib_allocator" \in
                                    GetCrateData(global.cx.st.metas, c).attrs
                      THEN EmitErr(global.cx, "GlobalAllocRequired", "", "")
                      ELSE global.cx)
                     EXCEPT !.allocator.allocator_kind = AllocatorKindOf(global.chosen)]],
            "has_alloc_error_handler", "ConflictingAllocErrorHandler", 0))

(* inject_allocator_crate after the scan of the local crate *)
SelectAllocator(cx, s) ==
    IF /\ "needs_allocator" \notin s.post.krate_attrs
       /\ ~\E c \in IterCrateData(cx.st.metas) :
              "needs_allocator" \in GetCrateData(cx.st.metas, c).attrs
    THEN cx
    ELSE IF s.post.only_rlib THEN cx
    ELSE GlobalAllocatorChosen(
             ScanProviders([chosen |-> IF cx.allocator.has_global_allocator
                                       THEN Some("this crate") ELSE None,
                            cx |-> cx],
                           "has_global_allocator", "ConflictingGlobalAlloc", 0),
             s)

InjectAllocatorCrate(cx, s) ==
    IF cx.st.panic # "" THEN cx
    ELSE SelectAllocator(
             [LocalAllocFns(LocalAllocFns(cx, s.post.global_alloc_fns, "NoMultipleGlobalAlloc"),
                            s.post.alloc_error_handler_fns, "NoMultipleAllocErrorHandler")
                 EXCEPT !.allocator.has_global_allocator = s.post.global_alloc_fns >= 1,
                        !.allocator.has_alloc_error_handler =
                            s.post.alloc_error_handler_fns >= 1],
             s)

----------------------------------------------------------------------------
(* the reports that end postprocess *)

BufferLint(cx, lint, extern_crate, local_crate) ==
    [cx EXCEPT !.run.lints = Append(@, [lint |-> lint, extern_crate |-> extern_crate,
                                        local_crate |-> local_crate])]

(* the loop body reporting an unused name whatever its modifiers *)
ReportUnusedDepWhateverTheModifiers(cx, s, name, entry) ==
    IF entry.files = {} THEN cx
    ELSE IF name \in cx.used THEN cx
    ELSE IF s.post.json_unused_externs
    THEN [cx EXCEPT !.unused_externs = Append(@, name)]
    ELSE BufferLint(cx, "unused_crate_dependencies", name, s.local.name)

(* the loop body recording the unused name whatever the output mode *)
ReportUnusedDepAlwaysRecorded(cx, s, name, entry) ==
    IF entry.files = {} THEN cx
    ELSE IF entry.nounused_dep \/ entry.force THEN cx
    ELSE IF name \in cx.used THEN cx
    ELSE BufferLint([cx EXCEPT !.unused_externs = Append(@, name)],
                    "unused_crate_dependencies", name, s.local.name)

(* the loop body of report_unused_deps_in_crate for one --extern entry *)
ReportUnusedDep(cx, s, name, entry) ==
    IF entry.files = {} THEN cx
    ELSE IF entry.nounused_dep \/ entry.force THEN cx
    ELSE IF name \in cx.used THEN cx
    ELSE IF s.post.json_unused_externs
    THEN [cx EXCEPT !.unused_externs = Append(@, name)]
    ELSE BufferLint(cx, "unused_crate_dependencies", name, s.local.name)

RECURSIVE ReportUnusedDepsFrom(_, _, _)
ReportUnusedDepsFrom(cx, s, i) ==
    IF i > Len(s.extern_names) THEN cx
    ELSE ReportUnusedDepsFrom(
             ReportUnusedDep(cx, s, s.extern_names[i], s.externs[s.extern_names[i]]),
             s, i + 1)

ReportUnusedDepsInCrate(cx, s) ==
    IF cx.st.panic # "" THEN cx ELSE ReportUnusedDepsFrom(cx, s, 1)

(* the versions of wasm_bindgen that report_future_incompatible_deps lets   *)
(* pass: major, minor and patch as parsed from the environment              *)
WasmBindgenAccepted(major, minor, patch) ==
    \/ major.some /\ major.val >= 1
    \/ major = Some(0) /\ minor.some /\ minor.val >= 3
    \/ major = Some(0) /\ minor = Some(2) /\ patch.some /\ patch.val >= 88
    \/ ~major.some /\ ~minor.some /\ ~patch.some

ReportFutureIncompatibleDeps(cx, s) ==
    IF cx.st.panic # "" THEN cx
    ELSE IF /\ s.local.name = "wasm_bindgen"
            /\ ~WasmBindgenAccepted(s.post.cargo_pkg_version[1], s.post.cargo_pkg_version[2],
                                    s.post.cargo_pkg_version[3])
    THEN EmitErr(cx, "WasmCAbi", "", "")
    ELSE cx

----------------------------------------------------------------------------
(* postprocess *)

(* ghost: the pass about to run, with what it can see: the stored crates,   *)
(* used_extern_options, injected_panic_runtime, and how many resolve_crate  *)
(* calls and diagnostics this run has made so far                           *)
Enter(pass, cx) ==
    IF cx.st.panic # "" THEN cx
    ELSE [cx EXCEPT !.run.passes =
              Append(@, [pass |-> pass, visible |-> IterCrateData(cx.st.metas),
                         used |-> cx.used, ipr |-> cx.ipr,
                         resolves |-> Len(cx.run.resolves),
                         emitted |-> Len(cx.run.emitted)])]

(* the passes with the panic runtime injected first *)
PostprocessPanicRuntimeFirst(cx, s) ==
    Enter("end",
      ReportFutureIncompatibleDeps(Enter("report_future_incompatible_deps",
        ReportUnusedDepsInCrate(Enter("report_unused_deps_in_crate",
          InjectAllocatorCrate(Enter("inject_allocator_crate",
            InjectProfilerRuntime(Enter("inject_profiler_runtime",
              InjectForcedExterns(Enter("inject_forced_externs",
                InjectCompilerBuiltins(Enter("inject_compiler_builtins",
                  InjectPanicRuntime(Enter("inject_panic_runtime", cx), s)), s)),
                s, 1)), s)), s)), s)), s))

PostprocessPasses(cx, s) ==
    Enter("end",
      ReportFutureIncompatibleDeps(Enter("report_future_incompatible_deps",
        ReportUnusedDepsInCrate(Enter("report_unused_deps_in_crate",
          InjectPanicRuntime(Enter("inject_panic_runtime",
            InjectAllocatorCrate(Enter("inject_allocator_crate",
              InjectProfilerRuntime(Enter("inject_profiler_runtime",
                InjectForcedExterns(Enter("inject_forced_externs",
                  InjectCompilerBuiltins(Enter("inject_compiler_builtins", cx), s)),
                  s, 1)), s)), s)), s)), s)), s))

----------------------------------------------------------------------------
(* rustc_watt_runtime::metadata: the proc-macro declarations of a wasm file. *)
(* Bytes are the integers 0 .. 255; positions are counted from 0 as in the   *)
(* code, so the byte at position pos of a sequence s is s[pos + 1].          *)

(* ".rustc_proc_macro_decls" *)
DeclsSectionName == <<46, 114, 117, 115, 116, 99, 95, 112, 114, 111, 99, 95, 109, 97, 99, 114, 111, 95, 100, 101, 99, 108, 115>>
(* "\0asm" *)
WasmMagic == <<0, 97, 115, 109>>

(* the unsigned LEB128 encoding of n, as a wasm producer writes a u32 *)
RECURSIVE Leb128(_)
Leb128(n) == IF n < 128 THEN <<n>> ELSE <<(n % 128) + 128>> \o Leb128(n \div 128)

(* sections as a producer writes them: the id, the size of what follows, and *)
(* for a custom section (id 0) the length-prefixed name before the payload   *)
RECURSIVE EncodeSections(_, _)
EncodeSections(secs, i) ==
    IF i > Len(secs) THEN <<>>
    ELSE LET sec == secs[i]
             body == IF sec.id = 0 THEN Leb128(Len(sec.name)) \o sec.name \o sec.payload
                     ELSE sec.payload
         IN <<sec.id>> \o Leb128(Len(body)) \o body \o EncodeSections(secs, i + 1)

(* the sections of the wasm files of the sessions, by path:                  *)
(*  /w/w.wasm   a type section, a name section and the declarations          *)
(*              "derive:D:f:h, k\n attr:a:g\r\n# note\n"                     *)
(*  /w/v.wasm   a name section and 62 declarations "bang:m:f\n"              *)
(*  /w/w2.wasm  no declarations: a type section whose payload reads like a   *)
(*              declarations section, a custom section whose name is the     *)
(*              declarations' name with one more byte, and a name section    *)
(*              whose payload holds the declarations' name                   *)
(*  /w/u.wasm   no section at all                                            *)
WasmSections(path) ==
    LET Custom(name, payload) == [id |-> 0, name |-> name, payload |-> payload]
        Section(id, payload) == [id |-> id, name |-> <<>>, payload |-> payload]
        Repeat(s, n) == [i \in 1 .. n * Len(s) |-> s[((i - 1) % Len(s)) + 1]]
        NameSectionName == <<110, 97, 109, 101>>
        ABang == <<98, 97, 110, 103, 58, 97, 58, 98>>
    IN CASE path = "/w/w.wasm" ->
              <<Section(1, <<1, 96, 0, 0>>),
                Custom(NameSectionName, <<0, 1, 119>>),
                Custom(DeclsSectionName, <<100, 101, 114, 105, 118, 101, 58, 68, 58, 102, 58, 104, 44, 32, 107, 10, 32, 97, 116, 116, 114, 58, 97, 58, 103, 13, 10, 35, 32, 110, 111, 116, 101, 10>>)>>
         [] path = "/w/v.wasm" ->
              <<Custom(NameSectionName, <<0, 1, 118>>),
                Custom(DeclsSectionName, Repeat(<<98, 97, 110, 103, 58, 109, 58, 102, 10>>, 62))>>
         [] path = "/w/w2.wasm" ->
              <<Section(1, Leb128(Len(DeclsSectionName)) \o DeclsSectionName \o ABang),
                Custom(DeclsSectionName \o <<50>>, ABang),
                Custom(NameSectionName, DeclsSectionName \o ABang)>>
         [] OTHER -> <<>>

(* fs::read(path) of a readable file: the magic, version 1, the sections *)
WasmFile(path) == WasmMagic \o <<1, 0, 0, 0>> \o EncodeSections(WasmSections(path), 1)

(* read_leb128_u32 of &bytes[from..], from its loop head: Some(<<result,     *)
(* pos>>) or None.  group is ((byte & 0x7F) as u32) << shift, which loses    *)
(* the bits shifted past bit 31; the groups do not overlap, so `result |=`   *)
(* adds it.                                                                  *)
RECURSIVE ReadLeb128From(_, _, _, _, _)
ReadLeb128From(bytes, from, result, shift, pos) ==
    IF from + pos >= Len(bytes) THEN None
    ELSE LET byte == bytes[from + pos + 1]
             group == IF shift > 25 THEN ((byte % 128) % 2 ^ (32 - shift)) * 2 ^ shift
                      ELSE (byte % 128) * 2 ^ shift
         IN IF byte < 128 THEN Some(<<result + group, pos + 1>>)
            ELSE IF shift + 7 > 28 THEN None
            ELSE ReadLeb128From(bytes, from, result + group, shift + 7, pos + 1)

(* a section name that only starts with the name looked for *)
SectionNameStartsWith(name, section_name) ==
    Len(name) >= Len(section_name) /\ SubSeq(name, 1, Len(section_name)) = section_name

(* name == section_name.as_bytes() *)
SectionNamed(name, section_name) == name = section_name

(* the panic of an index or a range outside the slice it is applied to *)
IndexPanic == [some |-> FALSE, panic |-> "range out of bounds"]

(* &bytes[start..end]: the bytes, or the panic when start > end or end is    *)
(* past the length                                                           *)
Slice(bytes, start, end) ==
    IF start > end \/ end > Len(bytes) THEN IndexPanic
    ELSE Some(SubSeq(bytes, start + 1, end))

(* a section taken to end inside the input wherever it ends *)
SectionInsideOrNot(section_end, len) == TRUE

(* `if section_end > wasm_bytes.len() { break; }` not taken *)
SectionInside(section_end, len) == section_end <= len

(* the `while pos < wasm_bytes.len()` loop of find_custom_section; every     *)
(* wasm_bytes[..] of the body is a Slice or is guarded as the slice is       *)
RECURSIVE FindSectionFrom(_, _, _)
FindSectionFrom(wasm_bytes, section_name, pos) ==
    IF pos >= Len(wasm_bytes) THEN None
    ELSE LET section_id == wasm_bytes[pos + 1]
             sz == ReadLeb128From(wasm_bytes, pos + 1, 0, 0, 0)
             section_start == pos + 1 + sz.val[2]
             section_end == section_start + sz.val[1]
             nl == ReadLeb128From(wasm_bytes, section_start, 0, 0, 0)
             name_start == section_start + nl.val[2]
             name_end == name_start + nl.val[1]
             name == Slice(wasm_bytes, name_start, name_end)
         IN IF ~sz.some THEN None
            ELSE IF section_id # 0 THEN FindSectionFrom(wasm_bytes, section_name, section_end)
            ELSE IF ~SectionInside(section_end, Len(wasm_bytes)) THEN None
            ELSE IF section_start > Len(wasm_bytes) THEN IndexPanic
            ELSE IF ~nl.some THEN None
            ELSE IF name_end > section_end
            THEN FindSectionFrom(wasm_bytes, section_name, section_end)
            ELSE IF ~name.some THEN IndexPanic
            ELSE IF SectionNamed(name.val, section_name)
            THEN Slice(wasm_bytes, name_end, section_end)
            ELSE FindSectionFrom(wasm_bytes, section_name, section_end)

FindCustomSection(wasm_bytes, section_name) ==
    IF Len(wasm_bytes) < 8 THEN None
    ELSE IF SubSeq(wasm_bytes, 1, 4) # WasmMagic THEN None
    ELSE FindSectionFrom(wasm_bytes, section_name, 8)

(* str::split(sep): the pieces between the separators, empty ones included *)
Split(s, sep) ==
    LET idx == SelectSeq([i \in 1 .. Len(s) |-> i], LAMBDA i : s[i] = sep)
    IN [k \in 1 .. Len(idx) + 1 |->
           SubSeq(s, IF k = 1 THEN 1 ELSE idx[k - 1] + 1,
                     IF k = Len(idx) + 1 THEN Len(s) ELSE idx[k] - 1)]

(* str::trim; char::is_whitespace on ASCII is tab, line feed, vertical tab,  *)
(* form feed, carriage return, space                                         *)
Trim(s) ==
    LET keep == {i \in 1 .. Len(s) : s[i] \notin {9, 10, 11, 12, 13, 32}}
    IN IF keep = {} THEN <<>>
       ELSE SubSeq(s, CHOOSE i \in keep : \A j \in keep : i <= j,
                      CHOOSE i \in keep : \A j \in keep : j <= i)

ProcMacroMetadata(kind, name, attributes, function_name) ==
    [kind |-> kind, name |-> name, attributes |-> attributes, function_name |-> function_name]

(* the loop body matching the kind tag and at least three fields *)
ParseLineAnyFurtherFields(untrimmed) ==
    LET line == Trim(untrimmed)
        parts == Split(line, 58)
    IN IF line = <<>> \/ Len(parts) < 3 THEN None
       ELSE IF parts[1] = <<100, 101, 114, 105, 118, 101>>
       THEN Some(ProcMacroMetadata("CustomDerive", parts[2], <<>>, parts[3]))
       ELSE IF parts[1] = <<97, 116, 116, 114>>
       THEN Some(ProcMacroMetadata("Attr", parts[2], <<>>, parts[3]))
       ELSE IF parts[1] = <<98, 97, 110, 103>>
       THEN Some(ProcMacroMetadata("Bang", parts[2], <<>>, parts[3]))
       ELSE None

(* the loop body of parse_metadata for one line: the entry pushed, or None   *)
(* when the line is skipped.  58 is ':' and 44 is ','; the words matched are *)
(* "derive", "attr" and "bang".                                              *)
ParseLine(untrimmed) ==
    LET line == Trim(untrimmed)
        parts == Split(line, 58)
        pieces == Split(parts[4], 44)
        attributes == SelectSeq([k \in 1 .. Len(pieces) |-> Trim(pieces[k])],
                                LAMBDA a : a # <<>>)
    IN IF line = <<>> THEN None
       ELSE IF Len(parts) = 3 /\ parts[1] = <<100, 101, 114, 105, 118, 101>>
       THEN Some(ProcMacroMetadata("CustomDerive", parts[2], <<>>, parts[3]))
       ELSE IF Len(parts) = 4 /\ parts[1] = <<100, 101, 114, 105, 118, 101>>
       THEN Some(ProcMacroMetadata("CustomDerive", parts[2], attributes, parts[3]))
       ELSE IF Len(parts) = 3 /\ parts[1] = <<97, 116, 116, 114>>
       THEN Some(ProcMacroMetadata("Attr", parts[2], <<>>, parts[3]))
       ELSE IF Len(parts) = 3 /\ parts[1] = <<98, 97, 110, 103>>
       THEN Some(ProcMacroMetadata("Bang", parts[2], <<>>, parts[3]))
       ELSE None

(* parse_metadata.  from_utf8 is decided for texts without multi-byte        *)
(* sequences, as those of the files above.  text.lines() is taken as the     *)
(* split at line feeds: the carriage return it strips and the empty last     *)
(* line it leaves out are trimmed and skipped by the loop body anyway.       *)
ParseMetadata(bytes) ==
    LET lines == Split(bytes, 10)
        pushed == SelectSeq([k \in 1 .. Len(lines) |-> ParseLine(lines[k])], LAMBDA p : p.some)
    IN IF \E i \in 1 .. Len(bytes) : bytes[i] >= 128 THEN <<>>
       ELSE [k \in 1 .. Len(pushed) |-> pushed[k].val]

ExtractProcMacroMetadata(wasm_bytes) ==
    LET found == FindCustomSection(wasm_bytes, DeclsSectionName)
    IN IF found.some THEN ParseMetadata(found.val) ELSE <<>>

----------------------------------------------------------------------------
(* create_wasm_proc_macros and its registry of slots (SLOTS).  st.slots is   *)
(* the filled prefix of the registry: slots are never freed, so the first    *)
(* free slot is the one after the last filled one.                           *)

(* vec![None; 256] *)
SlotCapacity == 256
(* the slots make_derive_client, make_attr_client and make_bang_client have  *)
(* an arm for: 0 ..= 63                                                      *)
ClientSlots == 64

(* allocate_slot: the slot index, or the panic when no slot is free *)
AllocateSlot(st, data) ==
    IF Len(st.slots) < SlotCapacity
    THEN [st |-> [st EXCEPT !.slots = Append(@, data)], slot |-> Len(st.slots)]
    ELSE [st |-> [st EXCEPT !.panic = "Ran out of proc macro slots (max 256)"],
          slot |-> -1]

(* make_derive_client, make_attr_client, make_bang_client: the same match *)
MakeClient(st, slot) ==
    IF slot < ClientSlots THEN st
    ELSE [st EXCEPT !.panic = "Invalid slot: " \o ToString(slot)]

(* the Client an arm of make_derive_client, make_attr_client or              *)
(* make_bang_client builds: Client::expand1 or Client::expand2 of the        *)
(* function slot_<slot>_<kind>                                               *)
ClientOf(slot, kind) ==
    [expand |-> IF kind = "Attr" THEN 2 ELSE 1, slot |-> slot, kind |-> kind]

(* the ProcMacro value built of a metadata entry and the client for its slot *)
ProcMacroOf(meta, slot) ==
    [kind |-> meta.kind, name |-> meta.name,
     client |-> ClientOf(slot, IF meta.kind = "CustomDerive" THEN "Derive" ELSE meta.kind)]

(* one metadata entry once its slot was asked for: the client for the slot;  *)
(* made: the ProcMacro values built so far                                   *)
RegisterOne(a, al, meta) ==
    IF al.st.panic # "" THEN [st |-> al.st, made |-> a.made]
    ELSE LET st == MakeClient(al.st, al.slot)
         IN [st |-> st,
             made |-> IF st.panic # "" THEN a.made
                      ELSE Append(a.made, ProcMacroOf(meta, al.slot))]

(* the map over the metadata entries *)
RECURSIVE RegisterFrom(_, _, _, _)
RegisterFrom(a, wasm_macro, metadata, i) ==
    IF i > Len(metadata) \/ a.st.panic # "" THEN a
    ELSE RegisterFrom(
           RegisterOne(a, AllocateSlot(a.st,
                            [wasm_macro |-> wasm_macro,
                             function_name |-> metadata[i].function_name,
                             slot_type |-> IF metadata[i].kind = "CustomDerive" THEN "Derive"
                                           ELSE metadata[i].kind]),
                       metadata[i]),
           wasm_macro, metadata, i + 1)

(* the call as the history records it; proc_macros: the boxed slice the     *)
(* call returned                                                             *)
Created(st0, path, found, metadata, a) ==
    [a.st EXCEPT !.hist.wasm_created =
        @ \cup {[path |-> path, found |-> found, declared |-> Len(metadata),
                 macros |-> Len(a.made),
                 slots_before |-> Len(st0.slots), slots_after |-> Len(a.st.slots),
                 panic |-> a.st.panic]},
                !.hist.proc_macros = a.made]

CreateWasmProcMacros(st, path) ==
    LET metadata == ExtractProcMacroMetadata(WasmFile(path))
        found == FindCustomSection(WasmFile(path), DeclsSectionName).some
    IN IF metadata = <<>> THEN Created(st, path, found, metadata, [st |-> st, made |-> <<>>])
       ELSE Created(st, path, found, metadata,
                    RegisterFrom([st |-> st, made |-> <<>>], path, metadata, 1))

----------------------------------------------------------------------------
(* load_wasm_proc_macros (as compiled for target_family = "wasm") *)

(* create_wasm_proc_macro_stub_metadata *)
WasmStubMetadata(cnum, crate_name, stable_crate_id, wasm_path) ==
    [name |-> crate_name, hash |-> "stub", stable_crate_id |-> stable_crate_id,
     source |-> [dylib |-> Some(<<wasm_path, "All">>), rlib |-> None, rmeta |-> None],
     is_proc_macro_crate |-> FALSE, raw_proc_macros |-> TRUE, cnum |-> cnum,
     dependencies |-> <<>>, dep_kind |-> "MacrosOnly", private_dep |-> FALSE,
     host_hash |-> None, attrs |-> {}, crate_deps |-> <<>>]

WasmStableCrateId(file_name) ==
    StableCrateIdNew(file_name, FALSE, "wasm_proc_macro_" \o file_name)

(* the loop body reserving a slot in both arms of the match *)
WasmCrateNumAlwaysPush(st, r, stable_crate_id) ==
    [st |-> [st EXCEPT !.ids = IF r.ok THEN Append(@, stable_crate_id) ELSE @,
                       !.metas = Append(@, None),
                       !.hist.intern_log = IF r.ok THEN Append(@, r.cnum) ELSE @],
     cnum |-> r.cnum]

(* the `match self.tcx.create_crate_num(stable_crate_id)` of the loop body *)
WasmCrateNum(st, r, stable_crate_id) ==
    IF r.ok
    THEN [st |-> [st EXCEPT !.ids = Append(@, stable_crate_id),
                            !.metas = Append(@, None),
                            !.hist.intern_log = Append(@, r.cnum)],
          cnum |-> r.cnum]
    ELSE [st |-> st, cnum |-> r.cnum]

(* the loop over proc_macros_vec pushing (name, extension, def_id) onto the  *)
(* result; from: the module the extension was made of (ghost)               *)
WasmPushResult(st, cnum, entry) ==
    [st EXCEPT !.hist.wasm_result =
        @ \o [idx \in 1 .. Len(st.hist.proc_macros) |->
                 [name |-> st.hist.proc_macros[idx].name,
                  kind |-> st.hist.proc_macros[idx].kind,
                  client |-> st.hist.proc_macros[idx].client,
                  def_id |-> [krate |-> cnum, index |-> idx],
                  from |-> entry.path]]]

WasmSetStub(a, entry) ==
    SetCrateData(a.st, a.cnum,
                 WasmStubMetadata(a.cnum, entry.file_name, WasmStableCrateId(entry.file_name),
                                  entry.path))

(* ghost: the history keeps, for every entry that got as far as              *)
(* create_crate_num, whether its id was interned already, the CrateNum, the  *)
(* number of CrateNums before, whether the CrateNum had stored metadata, the *)
(* number of macros made of the file, and the panic the entry ended in       *)
WasmLoaded(st, entry, a, out) ==
    [out EXCEPT !.hist.wasm_loaded =
        @ \cup {[path |-> entry.path, cnum |-> a.cnum,
                 existing |-> a.cnum < Len(st.ids),
                 ids_before |-> Len(st.ids),
                 stored_before |-> a.cnum < Len(st.metas) /\ st.metas[a.cnum + 1].some,
                 macros |-> Len(st.hist.proc_macros),
                 panic |-> out.panic]}]

(* the loop body after create_wasm_proc_macros returned *)
LoadWasmCreated(st, entry) ==
    IF st.panic # "" THEN st
    ELSE
    LET a == WasmCrateNum(st, CreateCrateNum(st.ids, WasmStableCrateId(entry.file_name)),
                          WasmStableCrateId(entry.file_name))
        set == WasmSetStub(a, entry)
    IN WasmLoaded(st, entry, a,
                  IF set.panic # "" THEN set ELSE WasmPushResult(set, a.cnum, entry))

(* one iteration of the loop over sess.opts.wasm_proc_macros *)
LoadWasmEntry(st, entry) ==
    IF ~entry.readable THEN [st EXCEPT !.panic = "fatal: Failed to read WASM proc macro file"]
    ELSE LoadWasmCreated(CreateWasmProcMacros(st, entry.path), entry)

RECURSIVE LoadWasmFrom(_, _, _)
LoadWasmFrom(st, entries, i) ==
    IF i > Len(entries) \/ st.panic # "" THEN st
    ELSE LoadWasmFrom(LoadWasmEntry(st, entries[i]), entries, i + 1)

----------------------------------------------------------------------------
(* crate_dependencies_in_postorder.  deps is the IndexSet being built, a     *)
(* sequence without repetitions in insertion order; panic: get_crate_data    *)
(* met an empty slot.                                                        *)

(* IndexSet::insert *)
IndexSetInsert(acc, cnum) ==
    IF acc.panic \/ \E i \in 1 .. Len(acc.deps) : acc.deps[i] = cnum THEN acc
    ELSE [acc EXCEPT !.deps = Append(@, cnum)]

RECURSIVE PushDependenciesInPostorder(_, _, _)
RECURSIVE PushEachDependency(_, _, _, _)

(* the loop `for dep in data.dependencies()` from the i-th dependency on *)
PushEachDependency(ms, acc, cnum, i) ==
    IF acc.panic \/ i > Len(GetCrateData(ms, cnum).dependencies) THEN acc
    ELSE PushEachDependency(
             ms,
             IF GetCrateData(ms, cnum).dependencies[i] # cnum
             THEN PushDependenciesInPostorder(ms, acc, GetCrateData(ms, cnum).dependencies[i])
             ELSE acc,
             cnum, i + 1)

(* the crate is inserted before its dependencies are walked *)
PushDependenciesInPreorder(ms, acc, cnum) ==
    IF acc.panic \/ \E i \in 1 .. Len(acc.deps) : acc.deps[i] = cnum THEN acc
    ELSE IF ~HasCrateData(ms, cnum) THEN [acc EXCEPT !.panic = TRUE]
    ELSE PushEachDependency(ms, IndexSetInsert(acc, cnum), cnum, 1)

PushDependenciesInPostorder(ms, acc, cnum) ==
    IF acc.panic \/ \E i \in 1 .. Len(acc.deps) : acc.deps[i] = cnum THEN acc
    ELSE IF ~HasCrateData(ms, cnum) THEN [acc EXCEPT !.panic = TRUE]
    ELSE IndexSetInsert(PushEachDependency(ms, acc, cnum, 1), cnum)

RECURSIVE PushAllInPostorder(_, _, _)
(* the loop over iter_crate_data of the LOCAL_CRATE arm, from CrateNum c on *)
PushAllInPostorder(ms, acc, c) ==
    IF c >= Len(ms) THEN acc
    ELSE PushAllInPostorder(
             ms, IF HasCrateData(ms, c) THEN PushDependenciesInPostorder(ms, acc, c) ELSE acc,
             c + 1)

CrateDependenciesInPostorder(ms, cnum) ==
    IF cnum = LOCAL_CRATE
    THEN PushAllInPostorder(ms, [deps |-> <<>>, panic |-> FALSE], 0)
    ELSE PushDependenciesInPostorder(ms, [deps |-> <<>>, panic |-> FALSE], cnum)

----------------------------------------------------------------------------
(* The state machine *)

Store == [metas |-> metas, ids |-> stable_crate_ids, panic |-> panicked, hist |-> hist,
          slots |-> slots]

SetStore(st) ==
    /\ metas' = st.metas
    /\ stable_crate_ids' = st.ids
    /\ panicked' = st.panic
    /\ hist' = st.hist
    /\ slots' = st.slots

LocalStableCrateId(s) == StableCrateIdNew(s.local.name, s.local.is_exe, s.local.metadata)

(* the record of a top-level call; hit: it returned a crate that was stored *)
(* before the call                                                          *)
Call(op, name, dep_kind, r) ==
    [op |-> op, name |-> name, dep_kind |-> dep_kind, ok |-> r.ok, cnum |-> r.cnum,
     err |-> r.err,
     hit |-> r.ok /\ r.cnum < Len(metas) /\ metas[r.cnum + 1].some]

NoRun == [passes |-> <<>>, resolves |-> <<>>, emitted |-> <<>>, lints |-> <<>>]

(* the threads of the process, and the WasmMacro values their calls of      *)
(* WasmMacro::id are about                                                  *)
Threads == {1, 2}
WasmMacros == {1, 2}

(* CStore::new, with the local crate's id interned by the session; SLOTS    *)
(* unlocked, NEXT_ID = 1, and every WasmMacro as new_owned made it          *)
Init ==
    /\ sess \in Sessions
    /\ metas = <<None>>
    /\ stable_crate_ids = <<LocalStableCrateId(sess)>>
    /\ used_extern_options = {}
    /\ panicked = ""
    /\ diag = {}
    /\ hist = [n_set |-> 0, intern_log |-> <<>>, reserved |-> {}, abandoned |-> {},
               collapsed |-> {}, dup_registered |-> FALSE, collided |-> {},
               postprocessed |-> FALSE, resolved |-> {}, matched |-> {},
               reresolved |-> {}, rematched |-> {}, n_probes |-> 0, wasm_created |-> {},
               intern_failed |-> {}, reached |-> {}, speculated |-> {},
               proc_macros |-> <<>>, wasm_result |-> <<>>, dep_log |-> <<>>,
               located |-> {}, wasm_loaded |-> {}]
    /\ slots = <<>>
    /\ dylib = [pc |-> "idle", path |-> "", attempt |-> 0, log |-> <<>>, sleeps |-> 0,
                last_error |-> None, result |-> None, leaked |-> {}]
    /\ applied = None
    /\ injected_panic_runtime = None
    /\ last = [op |-> "new", name |-> "", dep_kind |-> "", ok |-> TRUE, cnum |-> -1, err |-> "",
               hit |-> FALSE]
    /\ allocator = [has_global_allocator |-> FALSE, has_alloc_error_handler |-> FALSE,
                    allocator_kind |-> None, alloc_error_handler_kind |-> None]
    /\ unused_externs = <<>>
    /\ post_run = NoRun
    /\ postorder = None
    /\ ncalls = 0
    /\ threads = [t \in Threads |->
                    [pc |-> "idle", slot |-> -1, made |-> <<>>, read |-> None,
                     at_lock |-> -1, self |-> 0, id |-> 0, returned |-> <<>>]]
    /\ atomics = [slots_lock |-> 0, next_id |-> 1, id |-> [x \in WasmMacros |-> 0]]

Running == panicked = "" /\ ncalls < MaxCalls

(* what a call of resolve_crate leaves behind *)
Resolve(op, name, dep_kind, r) ==
    /\ SetStore(r.st)
    /\ used_extern_options' = used_extern_options \cup {name}
    /\ diag' = IF r.ok \/ r.st.panic # "" THEN diag ELSE diag \cup {r.err}
    /\ last' = Call(op, name, dep_kind, r)
    /\ ncalls' = ncalls + 1
    /\ postorder' = None
    /\ UNCHANGED <<sess, injected_panic_runtime, allocator, unused_externs, post_run, dylib,
                   applied, threads, atomics>>

(* what a call of maybe_resolve_crate leaves behind (ghost: speculated      *)
(* keeps the names it was called with)                                      *)
MaybeResolve(op, name, dep_kind, r) ==
    /\ SetStore([r.st EXCEPT !.hist.speculated = @ \cup {name}])
    /\ last' = Call(op, name, dep_kind, r)
    /\ ncalls' = ncalls + 1
    /\ postorder' = None
    /\ UNCHANGED <<sess, used_extern_options, diag, injected_panic_runtime, allocator,
                   unused_externs, post_run, dylib, applied, threads, atomics>>

LoadedWasm(st) ==
    /\ SetStore(st)
    /\ last' = [op |-> "load_wasm_proc_macros", name |-> "", dep_kind |-> "",
                ok |-> st.panic = "", cnum |-> -1, err |-> "", hit |-> FALSE]
    /\ ncalls' = ncalls + 1
    /\ postorder' = None
    /\ UNCHANGED <<sess, used_extern_options, diag, injected_panic_runtime, allocator,
                   unused_externs, post_run, dylib, applied, threads, atomics>>

NoLinkKind(no_link) == IF no_link THEN "MacrosOnly" ELSE "Explicit"

(* process_extern_crate: `extern crate name;`, with or without #[no_link] *)
ProcessExternCrate ==
    /\ Running
    /\ \E name \in Names, no_link \in BOOLEAN :
         \E r \in {ResolveCrate(Store, sess, name, NoLinkKind(no_link), OriginExtern)} :
             Resolve("process_extern_crate", name, NoLinkKind(no_link), r)

(* process_path_extern *)
ProcessPathExtern ==
    /\ Running
    /\ \E name \in PathNames :
         \E r \in {ResolveCrate(Store, sess, name, "Explicit", OriginExtern)} :
             Resolve("process_path_extern", name, "Explicit", r)

(* maybe_process_path_extern: resolves without recording or reporting *)
MaybeProcessPathExtern ==
    /\ Running
    /\ \E name \in MaybePathNames :
         \E r \in {MaybeResolveCrate(Store, sess, name, "Explicit", OriginExtern)} :
             MaybeResolve("maybe_process_path_extern", name, "Explicit", r)

LoadWasmProcMacros ==
    /\ Running
    /\ \E st \in {LoadWasmFrom([Store EXCEPT !.hist.wasm_result = <<>>],
                                sess.wasm_proc_macros, 1)} : LoadedWasm(st)

Cx == [st |-> Store, used |-> used_extern_options, diag |-> diag,
       ipr |-> injected_panic_runtime, allocator |-> allocator,
       unused_externs |-> unused_externs, run |-> NoRun]

(* what postprocess leaves behind *)
Postprocessed(cx) ==
    /\ metas' = cx.st.metas
    /\ stable_crate_ids' = cx.st.ids
    /\ panicked' = cx.st.panic
    /\ hist' = [cx.st.hist EXCEPT !.postprocessed = TRUE]
    /\ used_extern_options' = cx.used
    /\ diag' = cx.diag
    /\ injected_panic_runtime' = cx.ipr
    /\ allocator' = cx.allocator
    /\ unused_externs' = cx.unused_externs
    /\ post_run' = cx.run
    /\ slots' = cx.st.slots
    /\ last' = [op |-> "postprocess", name |-> "", dep_kind |-> "",
                ok |-> cx.st.panic = "", cnum |-> -1, err |-> "", hit |-> FALSE]
    /\ ncalls' = ncalls + 1
    /\ postorder' = None
    /\ UNCHANGED <<sess, dylib, applied, threads, atomics>>

(* postprocess, after the crate's items were processed *)
Postprocess ==
    /\ Running
    /\ \E cx \in {PostprocessPasses(Cx, sess)} : Postprocessed(cx)

(* a query of the store: crate_dependencies_in_postorder(cnum) for the local *)
(* crate or a stored one                                                     *)
QueryPostorder ==
    /\ Running
    /\ \E cnum \in IterCrateData(metas) \cup {LOCAL_CRATE} :
         \E acc \in {CrateDependenciesInPostorder(metas, cnum)} :
             postorder' = Some([cnum |-> cnum, deps |-> acc.deps, panic |-> acc.panic])
    /\ ncalls' = ncalls + 1
    /\ UNCHANGED <<sess, metas, stable_crate_ids, used_extern_options, panicked, diag, hist,
                   injected_panic_runtime, last, allocator, unused_externs, post_run,
                   slots, dylib, applied, threads, atomics>>

Next ==
    \/ Postprocess
    \/ QueryPostorder
    \/ ProcessExternCrate
    \/ ProcessPathExtern
    \/ MaybeProcessPathExtern
    \/ LoadWasmProcMacros

Spec == Init /\ [][Next]_vars

----------------------------------------------------------------------------
(* load_symbol_from_dylib, one step per attempt_load_dylib.  The steps read  *)
(* and write dylib only; the store is as CStore::new left it.                *)

(* load_dylib(&path, 5) *)
MaxAttempts == 5

(* the dylibs of the proc-macro crates of the catalog *)
DylibPaths == {"/p/libm.so", "/p/libk.so"}

(* the libloading::Error values attempt_load_dylib can return: LoadLibraryExW *)
(* with the Windows error it carries (32: sharing violation, 5: access       *)
(* denied), LoadLibraryExWUnknown, and DlOpen of a unix host                 *)
LoadErrors ==
    {[kind |-> "LoadLibraryExW", code |-> 32], [kind |-> "LoadLibraryExW", code |-> 5],
     [kind |-> "LoadLibraryExWUnknown", code |-> 0], [kind |-> "DlOpen", code |-> 0]}

(* the Err of load_symbol_from_dylib: DylibError::DlOpen or DlSym of the     *)
(* path; of: the libloading error formatted into the message; retried: the   *)
(* n of "(retried n times)", 0 when the message has no such part             *)
DylibError(variant, path, of, retried) ==
    Some([ok |-> FALSE, variant |-> variant, path |-> path, of |-> of, retried |-> retried])

(* a load_dylib that retries after every error *)
RetryableWhateverTheError(err) == TRUE

(* matches!(err, libloading::Error::LoadLibraryExW { .. }) *)
Retryable(err) == err.kind = "LoadLibraryExW"

(* the Err arm of the match in the loop of load_dylib *)
AttemptFailed(d, err) ==
    IF ~Retryable(err)
    THEN [d EXCEPT !.log = Append(@, err), !.pc = "done",
                   !.result = DylibError("DlOpen", d.path, err, 0)]
    ELSE [d EXCEPT !.log = Append(@, err), !.last_error = Some(err),
                   !.sleeps = @ + 1, !.attempt = @ + 1]

StoreAsNew ==
    UNCHANGED <<sess, metas, stable_crate_ids, used_extern_options, panicked, diag, hist,
                injected_panic_runtime, last, allocator, unused_externs, post_run, slots,
                applied, postorder, ncalls, threads, atomics>>

(* load_symbol_from_dylib is called: try_canonicalize, then load_dylib *)
LoadSymbolFromDylib ==
    /\ dylib.pc = "idle"
    /\ \E path \in DylibPaths : dylib' = [dylib EXCEPT !.pc = "load_dylib", !.path = path]
    /\ StoreAsNew

(* one iteration of `for attempt in 0..max_attempts` *)
AttemptLoadDylib ==
    /\ dylib.pc = "load_dylib"
    /\ dylib.attempt < MaxAttempts
    /\ \/ dylib' = [dylib EXCEPT !.log = Append(@, [kind |-> "Ok", code |-> 0]),
                                 !.pc = "get"]
       \/ \E err \in LoadErrors : dylib' = AttemptFailed(dylib, err)
    /\ StoreAsNew

(* the loop ran out: the error of the last attempt, "(retried n times)" *)
LoadDylibExhausted ==
    /\ dylib.pc = "load_dylib"
    /\ dylib.attempt >= MaxAttempts
    /\ dylib' = [dylib EXCEPT !.pc = "done",
                              !.result = DylibError("DlOpen", dylib.path,
                                                    dylib.last_error.val, MaxAttempts)]
    /\ StoreAsNew

(* lib.get(sym_name), and the library leaked when the symbol is there *)
LibGet ==
    /\ dylib.pc = "get"
    /\ \/ dylib' = [dylib EXCEPT !.pc = "done", !.result = Some([ok |-> TRUE]),
                                 !.leaked = @ \cup {dylib.path}]
       \/ dylib' = [dylib EXCEPT !.pc = "done",
                                 !.result = DylibError("DlSym", dylib.path,
                                                       [kind |-> "DlSym", code |-> 0], 0)]
    /\ StoreAsNew

DylibNext ==
    \/ LoadSymbolFromDylib
    \/ AttemptLoadDylib
    \/ LoadDylibExhausted
    \/ LibGet

DylibSpec == Init /\ [][DylibNext]_vars

----------------------------------------------------------------------------
(* The loader's functions applied on their own, to arguments drawn from the  *)
(* sets below; the store is as CStore::new left it.                          *)

Apply(op, args, out) ==
    /\ applied' = Some([out |-> out, op |-> op, args |-> args])
    /\ UNCHANGED <<sess, metas, stable_crate_ids, used_extern_options, panicked, diag, hist,
                   injected_panic_runtime, last, allocator, unused_externs, post_run, slots,
                   dylib, postorder, ncalls, threads, atomics>>

(* the origins of a resolution: CrateOrigin::{Extern, Injected,              *)
(* IndirectDependency} with every parent_private and dep.is_private          *)
Origins ==
    {OriginExtern, OriginInjected} \cup
    {OriginIndirect(parent_private, CrateDep("c", "hc", None, is_private, "Explicit")) :
        parent_private \in BOOLEAN, is_private \in BOOLEAN}

(* is_private_dep(externs, name, private_dep, origin) *)
IsPrivateDepApplied ==
    \E externs \in {NoExterns, ExternsPrivC, ExternsPathB, ExternsPrivA},
       name \in {"a", "b", "c"},
       private_dep \in {None, Some(FALSE), Some(TRUE)},
       origin \in Origins :
        Apply("is_private_dep",
              [name |-> name, externs |-> externs, origin |-> origin,
               private_dep |-> private_dep],
              IsPrivateDep(externs, name, private_dep, origin))

PrivateDepSpec == Init /\ [][IsPrivateDepApplied]_vars

(* parse_metadata as a function: the lines a section is made of, each with  *)
(* the entry the grammar of the section gives it (grammar: None for a line  *)
(* that is no record of the grammar) and the entry the loop body pushes for *)
(* it in a text that is UTF-8 (pushed)                                      *)
RecordLines == <<
    \* derive:D:f
    [bytes |-> <<100, 101, 114, 105, 118, 101, 58, 68, 58, 102>>,
     grammar |-> Some(ProcMacroMetadata("CustomDerive", <<68>>, <<>>, <<102>>)),
     pushed |-> Some(ProcMacroMetadata("CustomDerive", <<68>>, <<>>, <<102>>))],
    \* derive:D:f:a,b
    [bytes |-> <<100, 101, 114, 105, 118, 101, 58, 68, 58, 102, 58, 97, 44, 98>>,
     grammar |-> Some(ProcMacroMetadata("CustomDerive", <<68>>, <<<<97>>, <<98>>>>, <<102>>)),
     pushed |-> Some(ProcMacroMetadata("CustomDerive", <<68>>, <<<<97>>, <<98>>>>, <<102>>))],
    \* attr:r:g
    [bytes |-> <<97, 116, 116, 114, 58, 114, 58, 103>>,
     grammar |-> Some(ProcMacroMetadata("Attr", <<114>>, <<>>, <<103>>)),
     pushed |-> Some(ProcMacroMetadata("Attr", <<114>>, <<>>, <<103>>))],
    \* bang:m:h
    [bytes |-> <<98, 97, 110, 103, 58, 109, 58, 104>>,
     grammar |-> Some(ProcMacroMetadata("Bang", <<109>>, <<>>, <<104>>)),
     pushed |-> Some(ProcMacroMetadata("Bang", <<109>>, <<>>, <<104>>))],
    \* macro:m:h
    [bytes |-> <<109, 97, 99, 114, 111, 58, 109, 58, 104>>,
     grammar |-> None,
     pushed |-> None],
    \* bang:m
    [bytes |-> <<98, 97, 110, 103, 58, 109>>,
     grammar |-> None,
     pushed |-> None],
    \* attr:r:g:x
    [bytes |-> <<97, 116, 116, 114, 58, 114, 58, 103, 58, 120>>,
     grammar |-> None,
     pushed |-> None],
    \* an empty line
    [bytes |-> <<>>,
     grammar |-> None,
     pushed |-> None],
    \* a space
    [bytes |-> <<32>>,
     grammar |-> None,
     pushed |-> None],
    \* derive::f
    [bytes |-> <<100, 101, 114, 105, 118, 101, 58, 58, 102>>,
     grammar |-> None,
     pushed |-> Some(ProcMacroMetadata("CustomDerive", <<>>, <<>>, <<102>>))],
    \* derive:D:f:
    [bytes |-> <<100, 101, 114, 105, 118, 101, 58, 68, 58, 102, 58>>,
     grammar |-> None,
     pushed |-> Some(ProcMacroMetadata("CustomDerive", <<68>>, <<>>, <<102>>))],
    \* the byte 0xFF
    [bytes |-> <<255>>,
     grammar |-> None,
     pushed |-> None]
>>

MaxLines == 3

RECURSIVE JoinLines(_, _)
(* the lines from the i-th on, a line feed between two of them *)
JoinLines(ls, i) ==
    IF i > Len(ls) THEN <<>>
    ELSE RecordLines[ls[i]].bytes \o (IF i < Len(ls) THEN <<10>> ELSE <<>>)
             \o JoinLines(ls, i + 1)

(* the section: the lines, with or without a line feed after the last *)
SectionText(ls, newline) == JoinLines(ls, 1) \o (IF newline THEN <<10>> ELSE <<>>)

(* parse_metadata applied to one section *)
ParseMetadataApplied ==
    /\ applied = None
    /\ \E n \in 0 .. MaxLines :
        \E ls \in [1 .. n -> 1 .. Len(RecordLines)], newline \in BOOLEAN :
            Apply("parse_metadata",
                  [bytes |-> SectionText(ls, newline), lines |-> ls, newline |-> newline],
                  ParseMetadata(SectionText(ls, newline)))

ParseSpec == Init /\ [][ParseMetadataApplied]_vars

----------------------------------------------------------------------------
(* The expander runs the client of a macro load_wasm_proc_macros returned:   *)
(* the client's function is one of slot_0_derive .. slot_63_bang.            *)

(* the token streams an expansion is given *)
TokenStreams == {"ts0", "ts1"}

(* exec::proc_macro(fun, inputs, instance): the call the interpreter gets *)
ExecProcMacro(fun, inputs, instance) ==
    [instance |-> instance, fun |-> fun, inputs |-> inputs]

(* WasmMacro::proc_macro_derive, proc_macro_attribute and proc_macro *)
WasmMacroCall(kind, wasm_macro, fun, inputs) ==
    IF kind = "Attr" THEN ExecProcMacro(fun, <<inputs[1], inputs[2]>>, wasm_macro)
    ELSE ExecProcMacro(fun, <<inputs[1]>>, wasm_macro)

(* every slot_<n>_<kind> reading slot 0 of the registry *)
SlotFnOfSlotZero(registry, slot, kind, inputs) ==
    [panic |-> "", call |-> WasmMacroCall(kind, registry[1].wasm_macro,
                                          registry[1].function_name, inputs)]

(* slot_<slot>_<kind>(inputs): the registry is locked, the slot's data read, *)
(* and the module's method for the kind called with the stored function name *)
SlotFn(registry, slot, kind, inputs) ==
    IF slot >= Len(registry)
    THEN [panic |-> "Slot " \o ToString(slot) \o " not initialized", call |-> None]
    ELSE [panic |-> "", call |-> WasmMacroCall(kind, registry[slot + 1].wasm_macro,
                                               registry[slot + 1].function_name, inputs)]

(* Client::expand1(f) runs f(input), Client::expand2(f) runs f(args, input) *)
ClientRun(registry, client, args, input) ==
    SlotFn(registry, client.slot, client.kind,
           IF client.expand = 2 THEN <<args, input>> ELSE <<input>>)

(* the expansion of the macro-th extension of the last load's result *)
ExpandWasmMacro ==
    /\ panicked = ""
    /\ \E macro \in 1 .. Len(hist.wasm_result), args \in TokenStreams, input \in TokenStreams :
          Apply("expand", [args |-> args, input |-> input, macro |-> macro],
                ClientRun(slots, hist.wasm_result[macro].client, args, input))

ExpandNext ==
    \/ LoadWasmProcMacros
    \/ ExpandWasmMacro

ExpandSpec == Init /\ [][ExpandNext]_vars

----------------------------------------------------------------------------
(* allocate_slot and the slot functions called from several threads at once: *)
(* one step for the lock, one for the scan up to the first free slot, one    *)
(* for the write, one for the return that drops the guard.  atomics holds    *)
(* the lock of SLOTS: 0 when it is free, -1 when it is poisoned, else the    *)
(* thread that holds it.                                                     *)

(* the calls of allocate_slot a thread makes at most *)
MaxAllocs == 2

(* the SlotData of a thread's next call *)
SlotDataOf(t, made) ==
    [wasm_macro |-> IF t = 1 THEN "/w/w.wasm" ELSE "/w/v.wasm",
     function_name |-> "f" \o ToString(Len(made)),
     slot_type |-> IF t = 1 THEN "Derive" ELSE "Attr"]

(* a lock that lets every caller in *)
LockIsFreeOrNot(lock) == TRUE

(* get_slots().lock().unwrap(): the caller goes on once the lock is free     *)
(* (and never when it is poisoned)                                           *)
LockIsFree(lock) == lock = 0

(* what the steps of the store leave alone *)
StoreUntouched ==
    UNCHANGED <<sess, metas, stable_crate_ids, used_extern_options, panicked, diag, hist,
                injected_panic_runtime, last, allocator, unused_externs, post_run, dylib,
                applied, postorder, ncalls>>

(* allocate_slot: `let mut slots = get_slots().lock().unwrap()`; at_lock is  *)
(* the number of bound slots at that moment (ghost)                          *)
AllocateSlotLock(t) ==
    /\ threads[t].pc = "idle"
    /\ Len(threads[t].made) < MaxAllocs
    /\ LockIsFree(atomics.slots_lock)
    /\ atomics' = [atomics EXCEPT !.slots_lock = t]
    /\ threads' = [threads EXCEPT ![t].pc = "scan", ![t].at_lock = Len(slots)]
    /\ UNCHANGED slots
    /\ StoreUntouched

(* the loop up to the first slot that is None, or past the last slot to the  *)
(* panic, which poisons the lock                                             *)
AllocateSlotScan(t) ==
    /\ threads[t].pc = "scan"
    /\ threads' = IF Len(slots) < SlotCapacity
                  THEN [threads EXCEPT ![t].pc = "bind", ![t].slot = Len(slots)]
                  ELSE [threads EXCEPT ![t].pc = "panicked"]
    /\ atomics' = IF Len(slots) < SlotCapacity THEN atomics
                  ELSE [atomics EXCEPT !.slots_lock = -1]
    /\ UNCHANGED slots
    /\ StoreUntouched

(* `*slot = Some(data)` *)
AllocateSlotBind(t) ==
    /\ threads[t].pc = "bind"
    /\ slots' = IF threads[t].slot < Len(slots)
                THEN [slots EXCEPT ![threads[t].slot + 1] = SlotDataOf(t, threads[t].made)]
                ELSE Append(slots, SlotDataOf(t, threads[t].made))
    /\ threads' = [threads EXCEPT ![t].pc = "return"]
    /\ UNCHANGED atomics
    /\ StoreUntouched

(* `return i`: the guard is dropped; made keeps the index with the data the  *)
(* client for it was made of                                                 *)
AllocateSlotReturn(t) ==
    /\ threads[t].pc = "return"
    /\ atomics' = [atomics EXCEPT !.slots_lock = 0]
    /\ threads' = [threads EXCEPT
                      ![t].pc = "idle",
                      ![t].made = Append(@, [slot |-> threads[t].slot,
                                             data |-> SlotDataOf(t, threads[t].made)])]
    /\ UNCHANGED slots
    /\ StoreUntouched

(* slot_<n>_<kind>: `let slots = get_slots().lock().unwrap()`, for a client  *)
(* that one of the threads made                                              *)
SlotFnLock(t) ==
    /\ threads[t].pc = "idle"
    /\ LockIsFree(atomics.slots_lock)
    /\ \E u \in Threads : \E k \in 1 .. Len(threads[u].made) :
          threads' = [threads EXCEPT ![t].pc = "read", ![t].slot = threads[u].made[k].slot]
    /\ atomics' = [atomics EXCEPT !.slots_lock = t]
    /\ UNCHANGED slots
    /\ StoreUntouched

(* `let data = slots[n].as_ref().expect(..)` and the call of the module with *)
(* it, after which the guard is dropped                                      *)
SlotFnRead(t) ==
    /\ threads[t].pc = "read"
    /\ threads' = [threads EXCEPT ![t].pc = "idle",
                                  ![t].read = Some([slot |-> threads[t].slot,
                                                    data |-> slots[threads[t].slot + 1]])]
    /\ atomics' = [atomics EXCEPT !.slots_lock = 0]
    /\ UNCHANGED slots
    /\ StoreUntouched

SlotNext ==
    \E t \in Threads :
        \/ AllocateSlotLock(t)
        \/ AllocateSlotScan(t)
        \/ AllocateSlotBind(t)
        \/ AllocateSlotReturn(t)
        \/ SlotFnLock(t)
        \/ SlotFnRead(t)

SlotSpec == Init /\ [][SlotNext]_vars

----------------------------------------------------------------------------
(* WasmMacro::id called from several threads at once, one step for each      *)
(* atomic operation.  atomics holds NEXT_ID and the field id of each         *)
(* WasmMacro; a thread keeps the WasmMacro of its call (self), the local id, *)
(* and what its calls returned.                                              *)

(* the calls of WasmMacro::id a thread makes at most *)
MaxIdCalls == 2

(* AtomicUsize::compare_exchange(current, new): Ok(previous value) when the  *)
(* value was current, the new value being stored; else Err(actual value)     *)
CompareExchange(value, current, new) ==
    IF value = current THEN [ok |-> TRUE, val |-> value, stored |-> new]
    ELSE [ok |-> FALSE, val |-> value, stored |-> value]

(* Result<usize, usize>::unwrap_or_else(|id| id) *)
UnwrapOrElseId(result) == result.val

(* `match self.id.load(SeqCst)`: a non-zero id is returned at once *)
IdLoad(t) ==
    /\ threads[t].pc = "idle"
    /\ Len(threads[t].returned) < MaxIdCalls
    /\ \E x \in WasmMacros :
          threads' = IF atomics.id[x] # 0
                     THEN [threads EXCEPT ![t].returned =
                                              Append(@, [self |-> x, id |-> atomics.id[x]])]
                     ELSE [threads EXCEPT ![t].pc = "fetch_add", ![t].self = x]
    /\ UNCHANGED <<slots, atomics>>
    /\ StoreUntouched

(* `let id = NEXT_ID.fetch_add(1, SeqCst)` *)
IdFetchAdd(t) ==
    /\ threads[t].pc = "fetch_add"
    /\ threads' = [threads EXCEPT ![t].pc = "compare_exchange", ![t].id = atomics.next_id]
    /\ atomics' = [atomics EXCEPT !.next_id = @ + 1]
    /\ UNCHANGED slots
    /\ StoreUntouched

(* `self.id.compare_exchange(0, id, SeqCst, SeqCst).unwrap_or_else(|id| id)` *)
IdCompareExchange(t) ==
    /\ threads[t].pc = "compare_exchange"
    /\ \E r \in {CompareExchange(atomics.id[threads[t].self], 0, threads[t].id)} :
          /\ atomics' = [atomics EXCEPT !.id[threads[t].self] = r.stored]
          /\ threads' = [threads EXCEPT
                            ![t].pc = "idle",
                            ![t].returned = Append(@, [self |-> threads[t].self,
                                                       id |-> UnwrapOrElseId(r)])]
    /\ UNCHANGED slots
    /\ StoreUntouched

IdNext ==
    \E t \in Threads :
        \/ IdLoad(t)
        \/ IdFetchAdd(t)
        \/ IdCompareExchange(t)

IdSpec == Init /\ [][IdNext]_vars

----------------------------------------------------------------------------
(* find_custom_section applied to byte sequences: the 8-byte header of a     *)
(* module followed by up to MaxTail bytes, and inputs of up to MaxShort      *)
(* bytes after nothing, after the magic alone and after a wrong magic.       *)
(* TailBytes holds a section id other than 0, the lengths 0 .. 2, the letter *)
(* a and a byte with the continuation bit set.                               *)

MaxTail == 6

MaxShort == 4

TailBytes == {0, 1, 2, 97, 129}

SectionNames == {<<97>>, <<>>}

Tails(n) == UNION {[1 .. k -> TailBytes] : k \in 0 .. n}

WasmInputs ==
    {WasmMagic \o <<1, 0, 0, 0>> \o t : t \in Tails(MaxTail)} \cup
    {prefix \o t : prefix \in {<<>>, WasmMagic, <<0, 97, 115, 110, 1, 0, 0, 0>>},
                   t \in Tails(MaxShort)}

FindCustomSectionApplied ==
    /\ applied = None
    /\ \E wasm_bytes \in WasmInputs, section_name \in SectionNames :
           Apply("find_custom_section",
                 [wasm_bytes |-> wasm_bytes, section_name |-> section_name],
                 FindCustomSection(wasm_bytes, section_name))

SectionSpec == Init /\ [][FindCustomSectionApplied]_vars

----------------------------------------------------------------------------
(* inject_metadata, the tool that writes the declarations section into a     *)
(* module, and the reader applied to what it wrote.                          *)

RECURSIVE EncodeVaruint32ShiftEight(_)
(* encode_varuint32 with `value >>= 8` *)
EncodeVaruint32ShiftEight(value) ==
    LET byte == value % 128
        shifted == value \div 256
    IN IF shifted # 0 THEN <<byte + 128>> \o EncodeVaruint32ShiftEight(shifted)
       ELSE <<byte>>

RECURSIVE EncodeVaruint32(_)
(* encode_varuint32: one pass of the loop pushes (value & 0x7F), with 0x80   *)
(* when value >> 7 is not 0                                                  *)
EncodeVaruint32(value) ==
    LET byte == value % 128
        shifted == value \div 128
    IN IF shifted # 0 THEN <<byte + 128>> \o EncodeVaruint32(shifted)
       ELSE <<byte>>

(* b"derive:Demo:demo\n" *)
InjectedMetadata ==
    <<100, 101, 114, 105, 118, 101, 58, 68, 101, 109, 111, 58, 100, 101, 109, 111, 10>>

(* main of inject_metadata from the bytes read to the bytes written; the     *)
(* panic of wasm_bytes[0..8] for an input of less than 8 bytes               *)
InjectMetadata(wasm_bytes) ==
    LET metadata == InjectedMetadata
        section_name == DeclsSectionName
        name_len_encoded == EncodeVaruint32(Len(section_name))
        section_size == Len(name_len_encoded) + Len(section_name) + Len(metadata)
        custom_section == <<0>> \o EncodeVaruint32(section_size) \o name_len_encoded
                              \o section_name \o metadata
        header == Slice(wasm_bytes, 0, 8)
    IN IF ~header.some THEN IndexPanic
       ELSE Some(header.val \o custom_section \o SubSeq(wasm_bytes, 9, Len(wasm_bytes)))

(* the values encoded: around each power of 128 up to 2^28 and some more, up *)
(* to 2^31 - 1                                                               *)
Varuint32Values ==
    UNION {{2 ^ (7 * k) - 1, 2 ^ (7 * k), 2 ^ (7 * k) + 1} : k \in 0 .. 4}
        \cup {40, 300, 624485, 1073741824, 2147483647}

MaxRest == 2

(* read_leb128_u32 applied to encode_varuint32(value) followed by rest *)
EncodeVaruint32Applied ==
    /\ applied = None
    /\ \E value \in Varuint32Values, rest \in Tails(MaxRest) :
           Apply("encode_varuint32", [value |-> value, rest |-> rest],
                 [encoded |-> EncodeVaruint32(value),
                  read |-> ReadLeb128From(EncodeVaruint32(value) \o rest, 0, 0, 0, 0)])

(* the modules given to inject_metadata: the header and up to MaxRest bytes, *)
(* the files of the catalog, and inputs that are no module                   *)
InjectInputs ==
    {WasmMagic \o <<1, 0, 0, 0>> \o t : t \in Tails(MaxRest)} \cup
    {WasmFile(path) : path \in {"/w/w.wasm", "/w/w2.wasm", "/w/u.wasm"}} \cup
    {<<>>, WasmMagic, <<0, 97, 115, 110, 1, 0, 0, 0, 1, 0>>}

(* extract_proc_macro_metadata applied to what inject_metadata wrote *)
InjectMetadataApplied ==
    /\ applied = None
    /\ \E wasm_bytes \in InjectInputs :
           Apply("inject_metadata", [wasm_bytes |-> wasm_bytes],
                 [output |-> InjectMetadata(wasm_bytes),
                  extracted |-> IF InjectMetadata(wasm_bytes).some
                                THEN Some(ExtractProcMacroMetadata(
                                              InjectMetadata(wasm_bytes).val))
                                ELSE None])

InjectNext ==
    \/ EncodeVaruint32Applied
    \/ InjectMetadataApplied

InjectSpec == Init /\ [][InjectNext]_vars

----------------------------------------------------------------------------
(* Properties *)

Stored == IterCrateData(metas)

Row(k) == GetCrateData(metas, k)

ResolveOps == {"process_extern_crate", "process_path_extern", "maybe_process_path_extern"}

(* two rows describe the same crate *)
SameCrate(d, e) ==
    /\ d.name = e.name
    /\ d.hash = e.hash
    /\ d.stable_crate_id = e.stable_crate_id
    /\ d.source = e.source
    /\ d.cnum = e.cnum
    /\ d.dependencies = e.dependencies

(* C1: a metas slot that holds Some(metadata) is never overwritten or       *)
(* cleared by any operation, and the assertion of set_crate_data            *)
(* ('Overwriting crate metadata entry') never fires.                        *)
C1_SlotsNeverOverwritten ==
    [][/\ panicked' # "Overwriting crate metadata entry"
       /\ \A k \in 1 .. Len(metas) :
             metas[k].some =>
                 /\ k <= Len(metas')
                 /\ metas'[k].some
                 /\ SameCrate(metas[k].val, metas'[k].val)]_vars

(* C2 as stated: once the top-level call has returned, every slot reserved  *)
(* by intern_stable_crate_id holds metadata.                                *)
C2_EveryReservedSlotFilled ==
    panicked = "" => \A k \in hist.reserved : HasCrateData(metas, k)

(* C2: once the top-level call has returned, a slot reserved by             *)
(* intern_stable_crate_id holds metadata exactly when its registration was  *)
(* not abandoned after the intern, and the number of set_crate_data calls   *)
(* that went through equals the number of filled slots.                     *)
C2_ReservedFilledUnlessAbandoned ==
    /\ hist.n_set = Cardinality(Stored)
    /\ panicked = "" =>
           \A k \in hist.reserved : HasCrateData(metas, k) <=> k \notin hist.abandoned

C2_Witness ==
    /\ panicked = ""
    /\ last.op \in ResolveOps
    /\ hist.abandoned # {}
    /\ hist.reserved \ hist.abandoned # {}

(* C3: metas[0], the slot of the local crate, is None in every reachable    *)
(* state.                                                                   *)
C3_LocalSlotIsNone == ~HasCrateData(metas, LOCAL_CRATE)

(* C4: two distinct CrateNums with stored metadata have different           *)
(* stable_crate_ids, each stored row sits at the number its id is interned  *)
(* under, and a library whose id was already interned is not stored.        *)
C4_StableCrateIdsDistinct ==
    /\ \A i, j \in Stored : i # j => Row(i).stable_crate_id # Row(j).stable_crate_id
    /\ \A i \in Stored : stable_crate_ids[i + 1] = Row(i).stable_crate_id
    /\ \A x \in hist.collided : ~\E i \in Stored : <<Row(i).name, Row(i).hash>> = x

C4_Witness ==
    /\ "StableCrateIdCollision" \in diag
    /\ hist.collided # {}
    /\ Cardinality(Stored) >= 2

(* C5: no two stored crates share (name, hash); a located library with the  *)
(* (name, hash) of a stored crate is never registered but collapses onto    *)
(* the stored CrateNum, and two parents declaring the same dependency map   *)
(* it to the same CrateNum.                                                 *)
C5_NameHashDistinct ==
    /\ \A i, j \in Stored :
           i # j => <<Row(i).name, Row(i).hash>> # <<Row(j).name, Row(j).hash>>
    /\ ~hist.dup_registered
    /\ \A c \in hist.collapsed : HasCrateData(metas, c)
    /\ \A p, q \in Stored :
           \A i \in 1 .. Len(Row(p).dependencies) - 1, j \in 1 .. Len(Row(q).dependencies) - 1 :
               (/\ Row(p).crate_deps[i].name = Row(q).crate_deps[j].name
                /\ Row(p).crate_deps[i].hash = Row(q).crate_deps[j].hash)
               => Row(p).dependencies[i + 1] = Row(q).dependencies[j + 1]

C5_Witness ==
    /\ hist.collapsed # {}
    /\ \E p, q \in Stored :
           /\ p # q
           /\ \E c \in hist.collapsed :
                  /\ Len(Row(p).dependencies) >= 2 /\ Row(p).dependencies[2] = c
                  /\ Len(Row(q).dependencies) >= 2 /\ Row(q).dependencies[2] = c

(* C6: CrateNums are dense and handed out in first-seen order (the k-th     *)
(* allocation returns k), metas is as long as the interner, the assert_eq   *)
(* of intern_stable_crate_id never fails, and neither an interned id nor a  *)
(* stored crate ever changes its CrateNum.                                  *)
C6_DenseCrateNums ==
    /\ [](/\ Len(metas) = Len(stable_crate_ids)
          /\ Len(hist.intern_log) = Len(metas) - 1
          /\ \A k \in 1 .. Len(hist.intern_log) : hist.intern_log[k] = k
          /\ panicked # "assertion failed: metas.len() == stable_crate_ids.len()"
          /\ \A i \in Stored : Row(i).cnum = i)
    /\ [][/\ \A k \in 1 .. Len(stable_crate_ids) :
                 k <= Len(stable_crate_ids') /\ stable_crate_ids'[k] = stable_crate_ids[k]
          /\ \A k \in 1 .. Len(metas) :
                 metas[k].some =>
                     k <= Len(metas') /\ metas'[k].some
                     /\ metas'[k].val.cnum = metas[k].val.cnum]_vars

C6_Witness ==
    /\ last.op = "load_wasm_proc_macros"
    /\ panicked = ""
    /\ Len(hist.intern_log) >= 3
    /\ hist.reserved # {}

(* C7 as stated: dep_kind never decreases, and a resolve that hits a stored *)
(* crate leaves its dep_kind unchanged when the requested kind is lower and *)
(* raises it to the requested kind when that is higher.                     *)
C7_DepKindRaisedToRequest ==
    [][/\ \A k \in 1 .. Len(metas) :
              metas[k].some =>
                  DepKindRank(metas'[k].val.dep_kind) >= DepKindRank(metas[k].val.dep_kind)
       /\ (last'.op \in ResolveOps /\ last'.hit) =>
              metas'[last'.cnum + 1].val.dep_kind =
                  DepKindMax(metas[last'.cnum + 1].val.dep_kind, last'.dep_kind)]_vars

(* C7: dep_kind never decreases; a resolve that hits a stored crate leaves  *)
(* its dep_kind unchanged when the requested kind is lower and raises it to *)
(* the requested kind when that is higher, except that for a proc-macro     *)
(* crate the requested kind is replaced by MacrosOnly first.                *)
C7_DepKindMonotone ==
    [][/\ \A k \in 1 .. Len(metas) :
              metas[k].some =>
                  DepKindRank(metas'[k].val.dep_kind) >= DepKindRank(metas[k].val.dep_kind)
       /\ (last'.op \in ResolveOps /\ last'.hit) =>
              metas'[last'.cnum + 1].val.dep_kind =
                  DepKindMax(metas[last'.cnum + 1].val.dep_kind,
                             IF metas[last'.cnum + 1].val.is_proc_macro_crate
                             THEN "MacrosOnly" ELSE last'.dep_kind)]_vars

C7_Witness ==
    /\ last.op \in ResolveOps
    /\ last.hit
    /\ last.dep_kind = "Explicit"
    /\ Row(last.cnum).is_proc_macro_crate
    /\ Row(last.cnum).dep_kind = "MacrosOnly"

(* C8: private_dep of a stored crate never changes from false to true.      *)
C8_PrivateDepNeverRaised ==
    [][\A k \in 1 .. Len(metas) :
           (metas[k].some /\ ~metas[k].val.private_dep) =>
               (k <= Len(metas') /\ metas'[k].some /\ ~metas'[k].val.private_dep)]_vars

C8_Witness ==
    /\ last.op \in ResolveOps
    /\ last.hit
    /\ IsPrivateDep(sess.externs, last.name, None, OriginExtern)
    /\ ~Row(last.cnum).private_dep

C10_DependenciesStored ==
    panicked = "" =>
        \A i \in Stored : \A j \in 1 .. Len(Row(i).dependencies) :
            /\ Row(i).dependencies[j] \in 0 .. Len(metas) - 1
            /\ HasCrateData(metas, Row(i).dependencies[j])

C10_Witness ==
    /\ panicked = ""
    /\ last.op \in ResolveOps
    /\ \E i \in Stored : Len(Row(i).dependencies) >= 3

(* the crates reachable from those of S through dependency lists *)
RECURSIVE ReachableFrom(_)
ReachableFrom(S) ==
    IF \A c \in S : \A i \in 1 .. Len(Row(c).dependencies) : Row(c).dependencies[i] \in S
    THEN S
    ELSE ReachableFrom(S \cup UNION {{Row(c).dependencies[i] :
                                          i \in 1 .. Len(Row(c).dependencies)} : c \in S})

(* C11: crate_dependencies_in_postorder(c) of a stored crate c lists every  *)
(* crate reachable from c exactly once, ends with c, and lists each crate   *)
(* only after all of its dependencies other than itself; called with        *)
(* LOCAL_CRATE it lists every stored crate, under the same ordering rule.   *)
C11_PostorderOfDependencies ==
    postorder.some =>
        /\ ~postorder.val.panic
        /\ \A i, j \in 1 .. Len(postorder.val.deps) :
               postorder.val.deps[i] = postorder.val.deps[j] => i = j
        /\ \A i \in 1 .. Len(postorder.val.deps) :
               \A d \in 1 .. Len(Row(postorder.val.deps[i]).dependencies) :
                   Row(postorder.val.deps[i]).dependencies[d] # postorder.val.deps[i] =>
                       \E j \in 1 .. i - 1 :
                           postorder.val.deps[j] = Row(postorder.val.deps[i]).dependencies[d]
        /\ IF postorder.val.cnum = LOCAL_CRATE
           THEN {postorder.val.deps[i] : i \in 1 .. Len(postorder.val.deps)} = Stored
           ELSE /\ {postorder.val.deps[i] : i \in 1 .. Len(postorder.val.deps)} =
                       ReachableFrom({postorder.val.cnum})
                /\ postorder.val.deps[Len(postorder.val.deps)] = postorder.val.cnum

(* a query for a crate with a dependency that itself has a dependency, both *)
(* of them shared                                                           *)
C11_Witness ==
    /\ postorder.some
    /\ postorder.val.cnum # LOCAL_CRATE
    /\ Len(postorder.val.deps) >= 3
    /\ \E c \in Stored \ {postorder.val.cnum} :
           Len(Row(c).dependencies) >= 2 /\ c \in ReachableFrom({postorder.val.cnum})

(* C12: resolving a (name, hash) that was resolved before returns the same   *)
(* CrateNum, allocates no CrateNum and changes no crate's dependency list,   *)
(* whatever was loaded in between; and existing_match returns the same       *)
(* CrateNum on every later call with the same arguments once it returned one.*)
C12_ResolveIsIdempotent ==
    /\ \A x \in hist.reresolved : x.same /\ ~x.allocated /\ ~x.deps_changed
    /\ \A x \in hist.rematched : x.same
    /\ \A x, y \in hist.resolved : (x[1] = y[1] /\ x[2] = y[2]) => x[3] = y[3]
    /\ \A x, y \in hist.matched :
           (x[1] = y[1] /\ x[2] = y[2] /\ x[3] = y[3]) => x[4] = y[4]

(* a second resolution with other crates loaded in between, one answered by *)
(* existing_match and one answered by the load                              *)
C12_Witness ==
    /\ \E x \in hist.reresolved : x.between > 0 /\ x.matched
    /\ \E x \in hist.reresolved : ~x.matched
    /\ hist.rematched # {}

Range(seq) == {seq[i] : i \in 1 .. Len(seq)}

(* a step that is a run of postprocess on the store the previous run of      *)
(* postprocess left                                                          *)
SecondPostprocess ==
    /\ last.op = "postprocess"
    /\ last'.op = "postprocess"
    /\ ncalls' = ncalls + 1
    /\ postorder' = None

(* what a second run leaves alone: the crates, the interned ids, and every  *)
(* store field but unused_externs; and it emits only what the first emitted *)
SecondPostprocessKeeps ==
    /\ metas' = metas
    /\ stable_crate_ids' = stable_crate_ids
    /\ used_extern_options' = used_extern_options
    /\ injected_panic_runtime' = injected_panic_runtime
    /\ allocator' = allocator
    /\ panicked' = panicked
    /\ Range(post_run'.emitted) \subseteq Range(post_run.emitted)
    /\ Range(post_run'.lints) \subseteq Range(post_run.lints)

UnusedExternNames ==
    SelectSeq(sess.extern_names,
              LAMBDA n : /\ sess.post.json_unused_externs
                         /\ sess.externs[n].files # {}
                         /\ ~sess.externs[n].nounused_dep
                         /\ ~sess.externs[n].force
                         /\ n \notin used_extern_options)

HasPass(pass) == \E x \in Range(post_run.passes) : x.pass = pass

PassOf(pass) == CHOOSE x \in Range(post_run.passes) : x.pass = pass

(* the providers inject_allocator_crate met for an attribute, in the order   *)
(* of its scan: the local crate if it defines the function, then the crates *)
(* that were stored when the pass ran, by CrateNum                          *)
Providers(attr, local_fns) ==
    (IF local_fns >= 1 THEN <<"this crate">> ELSE <<>>) \o
    [i \in 1 .. Cardinality({c \in PassOf("inject_allocator_crate").visible :
                                attr \in Row(c).attrs}) |->
        Row(CHOOSE c \in PassOf("inject_allocator_crate").visible :
                /\ attr \in Row(c).attrs
                /\ Cardinality({d \in PassOf("inject_allocator_crate").visible :
                                    attr \in Row(d).attrs /\ d < c}) = i - 1).name]

Emitted(kind) == SelectSeq(post_run.emitted, LAMBDA d : d.kind = kind)

(* the allocator pass of the last run went past its two early returns *)
AllocatorSelected ==
    /\ ~sess.post.only_rlib
    /\ \/ "needs_allocator" \in sess.post.krate_attrs
       \/ \E c \in PassOf("inject_allocator_crate").visible :
              "needs_allocator" \in Row(c).attrs

(* C15 as stated: with more than one provider of a global allocator (of an  *)
(* allocation-error handler), exactly one ConflictingGlobalAlloc            *)
(* (ConflictingAllocErrorHandler) naming both providers is emitted,         *)
(* whatever the number of providers.                                        *)
C15_OneConflictDiagnostic ==
    HasPass("inject_panic_runtime") =>
        /\ Len(Providers("has_global_allocator", sess.post.global_alloc_fns)) > 1 =>
               /\ Len(Emitted("ConflictingGlobalAlloc")) = 1
               /\ {Emitted("ConflictingGlobalAlloc")[1].crate_name,
                     Emitted("ConflictingGlobalAlloc")[1].other_crate_name} \subseteq
                      Range(Providers("has_global_allocator", sess.post.global_alloc_fns))
               /\ Emitted("ConflictingGlobalAlloc")[1].crate_name #
                      Emitted("ConflictingGlobalAlloc")[1].other_crate_name
        /\ Len(Providers("has_alloc_error_handler", sess.post.alloc_error_handler_fns)) > 1 =>
               /\ Len(Emitted("ConflictingAllocErrorHandler")) = 1
               /\ {Emitted("ConflictingAllocErrorHandler")[1].crate_name,
                     Emitted("ConflictingAllocErrorHandler")[1].other_crate_name} \subseteq
                      Range(Providers("has_alloc_error_handler",
                                      sess.post.alloc_error_handler_fns))
               /\ Emitted("ConflictingAllocErrorHandler")[1].crate_name #
                      Emitted("ConflictingAllocErrorHandler")[1].other_crate_name

(* the conflicts expected of a list of providers: one for each provider     *)
(* after the first, naming it and the first                                 *)
ConflictsOf(kind, providers) ==
    [i \in 1 .. Len(providers) - 1 |-> Diagnostic(kind, providers[i + 1], providers[1])]

(* C15: when an allocator is needed and some output is not an rlib,         *)
(* inject_allocator_crate emits one ConflictingGlobalAlloc for each         *)
(* provider of a global allocator after the first (the local crate, then    *)
(* the loaded crates by CrateNum), naming that provider and the first one:  *)
(* exactly one for two providers; otherwise it emits none.  The same holds  *)
(* for ConflictingAllocErrorHandler and allocation-error handlers.          *)
C15_OneConflictPerFurtherProvider ==
    HasPass("inject_panic_runtime") =>
        /\ Emitted("ConflictingGlobalAlloc") =
               IF AllocatorSelected
               THEN ConflictsOf("ConflictingGlobalAlloc",
                                Providers("has_global_allocator", sess.post.global_alloc_fns))
               ELSE <<>>
        /\ Emitted("ConflictingAllocErrorHandler") =
               IF AllocatorSelected
               THEN ConflictsOf("ConflictingAllocErrorHandler",
                                Providers("has_alloc_error_handler",
                                          sess.post.alloc_error_handler_fns))
               ELSE <<>>

(* a run that met three providers of a global allocator, and one that met   *)
(* exactly two providers of an allocation-error handler                     *)
C15_Witness ==
    /\ HasPass("inject_panic_runtime")
    /\ AllocatorSelected
    /\ Len(Providers("has_global_allocator", sess.post.global_alloc_fns)) = 3
    /\ Len(Emitted("ConflictingGlobalAlloc")) = 2
    /\ Len(Emitted("ConflictingAllocErrorHandler")) >= 1

(* the panic-runtime pass of the last run did nothing: it called            *)
(* resolve_crate for no name, emitted nothing, and the store, the used      *)
(* names and injected_panic_runtime are as it found them                    *)
PanicRuntimePassWasNoOp ==
    /\ HasPass("report_unused_deps_in_crate")
    /\ PassOf("report_unused_deps_in_crate").resolves = PassOf("inject_panic_runtime").resolves
    /\ PassOf("report_unused_deps_in_crate").emitted = PassOf("inject_panic_runtime").emitted
    /\ PassOf("report_unused_deps_in_crate").ipr = PassOf("inject_panic_runtime").ipr
    /\ PassOf("report_unused_deps_in_crate").visible = PassOf("inject_panic_runtime").visible
    /\ PassOf("report_unused_deps_in_crate").used = PassOf("inject_panic_runtime").used

NeedsPanicRuntime ==
    \/ "needs_panic_runtime" \in sess.post.krate_attrs
    \/ \E c \in PassOf("inject_panic_runtime").visible :
           "needs_panic_runtime" \in Row(c).attrs

(* C16: inject_panic_runtime is a no-op (resolves no crate, leaves          *)
(* injected_panic_runtime as it is, emits no diagnostic) if and only if     *)
(* every crate type is rlib, or neither the local crate nor a loaded crate  *)
(* sets needs_panic_runtime, or the panic strategy is ImmediateAbort.       *)
C16_PanicRuntimeNoOpIff ==
    HasPass("inject_panic_runtime") =>
        (PanicRuntimePassWasNoOp <=>
            \/ sess.post.only_rlib
            \/ ~NeedsPanicRuntime
            \/ sess.post.panic_strategy = "ImmediateAbort")

(* a run whose panic-runtime pass did nothing for the strategy alone: a     *)
(* loaded crate needs a panic runtime and an executable is built            *)
C16_Witness ==
    /\ HasPass("inject_panic_runtime")
    /\ PanicRuntimePassWasNoOp
    /\ ~sess.post.only_rlib
    /\ NeedsPanicRuntime
    /\ "needs_panic_runtime" \notin sess.post.krate_attrs
    /\ sess.post.panic_strategy = "ImmediateAbort"

PassOrder ==
    <<"inject_compiler_builtins", "inject_forced_externs", "inject_profiler_runtime",
      "inject_allocator_crate", "inject_panic_runtime", "report_unused_deps_in_crate",
      "report_future_incompatible_deps", "end">>

(* the names resolve_crate was called with during the i-th pass *)
ResolvedBy(i) ==
    {post_run.resolves[k] :
        k \in post_run.passes[i].resolves + 1 ..
                  (IF i < Len(post_run.passes) THEN post_run.passes[i + 1].resolves
                   ELSE Len(post_run.resolves))}

(* C17: postprocess runs compiler-builtins, forced externs, profiler        *)
(* runtime, allocator crate, panic runtime in this order and the two        *)
(* reports only after all five; what an earlier pass resolved (the crates   *)
(* it stored, the names it used) is visible to every later pass and to the  *)
(* unused-extern report.                                                    *)
C17_PassesInOrder ==
    /\ Len(post_run.passes) <= Len(PassOrder)
    /\ \A i \in 1 .. Len(post_run.passes) : post_run.passes[i].pass = PassOrder[i]
    /\ panicked = "" /\ post_run.passes # <<>> => Len(post_run.passes) = Len(PassOrder)
    /\ \A i, j \in 1 .. Len(post_run.passes) :
           i < j => /\ post_run.passes[i].visible \subseteq post_run.passes[j].visible
                    /\ post_run.passes[i].used \subseteq post_run.passes[j].used
                    /\ ResolvedBy(i) \subseteq post_run.passes[j].used
    /\ \A l \in Range(post_run.lints) : l.extern_crate \notin Range(post_run.resolves)

(* a run whose panic-runtime pass resolved a runtime only because of a      *)
(* crate that the forced-externs pass had loaded                            *)
C17_Witness ==
    /\ HasPass("end")
    /\ ~\E c \in PassOf("inject_forced_externs").visible :
           "needs_panic_runtime" \in Row(c).attrs
    /\ "needs_panic_runtime" \notin sess.post.krate_attrs
    /\ \E c \in PassOf("inject_profiler_runtime").visible :
           "needs_panic_runtime" \in Row(c).attrs
    /\ PassOf("report_unused_deps_in_crate").resolves > PassOf("inject_panic_runtime").resolves

(* a step that is a top-level resolution *)
ResolveStep ==
    /\ last'.op \in ResolveOps
    /\ ncalls' = ncalls + 1
    /\ postorder' = None

(* C18 as stated: resolving a name with a non-ASCII character fails with    *)
(* NonAsciiName before the store is probed and the locator invoked,         *)
(* allocates no CrateNum and changes no stored crate.                       *)
C18_NonAsciiTouchesNothing ==
    [][(ResolveStep /\ ~IsAscii(last'.name)) =>
          /\ ~last'.ok
          /\ last'.err = "NonAsciiName"
          /\ hist'.n_probes = hist.n_probes
          /\ stable_crate_ids' = stable_crate_ids
          /\ metas' = metas]_vars

(* C18: maybe_resolve_crate on a name with a non-ASCII character fails with *)
(* NonAsciiName before the store is probed and the locator invoked,         *)
(* allocating no CrateNum and changing no stored crate; resolve_crate then  *)
(* resolves `core` to word its report, which probes the store, invokes the  *)
(* locator and may load or update `core`, and touches no other crate.       *)
C18_NonAsciiTouchesOnlyCore ==
    [][(ResolveStep /\ ~IsAscii(last'.name)) =>
          /\ ~last'.ok
          /\ last'.err = "NonAsciiName"
          /\ IF last'.op = "maybe_process_path_extern"
             THEN /\ hist'.n_probes = hist.n_probes
                  /\ stable_crate_ids' = stable_crate_ids
                  /\ metas' = metas
             ELSE /\ hist'.n_probes = hist.n_probes + 1
                  /\ \A k \in 1 .. Len(metas) :
                         \/ metas'[k] = metas[k]
                         \/ metas[k].some /\ metas[k].val.name = "core"
                  /\ \A k \in Len(metas) + 1 .. Len(metas') :
                         metas'[k].some /\ metas'[k].val.name = "core"
                  /\ Len(stable_crate_ids') = Len(metas')
                  /\ Len(metas') <= Len(metas) + 1]_vars

(* `extern crate` with a non-ASCII name as the first call: it failed, and   *)
(* its report loaded core                                                   *)
C18_Witness ==
    /\ ncalls = 1
    /\ last.op = "process_extern_crate"
    /\ ~IsAscii(last.name)
    /\ last.err = "NonAsciiName"
    /\ \E k \in Stored : Row(k).name = "core"

(* the file at path holds a custom section named .rustc_proc_macro_decls *)
HasDeclsSection(path) ==
    \E i \in 1 .. Len(WasmSections(path)) :
        WasmSections(path)[i].id = 0 /\ WasmSections(path)[i].name = DeclsSectionName

(* C19: for a wasm module without a .rustc_proc_macro_decls custom section   *)
(* the extraction finds no declaration, and create_wasm_proc_macros builds   *)
(* no macro, does not panic and fills no slot of the registry.               *)
C19_NoDeclarationsNoMacros ==
    \A l \in hist.wasm_created :
        ~HasDeclsSection(l.path) =>
            /\ ~l.found
            /\ l.declared = 0
            /\ l.macros = 0
            /\ l.panic = ""
            /\ l.slots_after = l.slots_before

(* a module without declarations was loaded after one that filled slots, and *)
(* its stub went into the store                                              *)
C19_Witness ==
    /\ panicked = ""
    /\ Len(slots) > 0
    /\ \E l \in hist.wasm_created :
           ~HasDeclsSection(l.path) /\ l.slots_before = Len(slots) /\ l.macros = 0

(* C20: every registration that finds fewer than 256 slots filled succeeds   *)
(* with a client, and the only failure of a registration is the panic        *)
(* 'Ran out of proc macro slots (max 256)'.                                  *)
C20_RegistersUpTo256 ==
    \A l \in hist.wasm_created :
        /\ l.slots_before + l.declared <= SlotCapacity =>
               l.panic = "" /\ l.macros = l.declared
        /\ l.panic # "" => l.panic = "Ran out of proc macro slots (max 256)"


(* C14: the dylib open step makes at most 5 attempts; an attempt follows     *)
(* only a failure of the LoadLibraryExW class, each of which is followed by  *)
(* one sleep; the first success ends the attempts with the library in hand;  *)
(* a failure of another class ends them with an error, without a sleep or a  *)
(* retry; five LoadLibraryExW failures end them with the error that counts   *)
(* the five tries.                                                           *)
C14_FiveAttemptsRetryOnLoadLibraryExW ==
    LET log == dylib.log
        n == Len(log)
    IN /\ n <= 5
       /\ \A i \in 1 .. n - 1 : log[i].kind = "LoadLibraryExW"
       /\ dylib.sleeps = Cardinality({i \in 1 .. n : log[i].kind = "LoadLibraryExW"})
       /\ (n > 0 /\ log[n].kind = "Ok") =>
              /\ dylib.pc \in {"get", "done"}
              /\ dylib.result.some => dylib.result.val.ok \/ dylib.result.val.variant = "DlSym"
       /\ (n > 0 /\ log[n].kind \notin {"Ok", "LoadLibraryExW"}) =>
              /\ dylib.pc = "done"
              /\ dylib.result = DylibError("DlOpen", dylib.path, log[n], 0)
       /\ (n > 0 /\ log[n].kind = "LoadLibraryExW") =>
              /\ dylib.pc = "load_dylib" \/ n = 5
              /\ dylib.pc = "done" => dylib.result = DylibError("DlOpen", dylib.path, log[5], 5)
       /\ dylib.pc = "load_dylib" => ~dylib.result.some

(* five LoadLibraryExW failures in a row ended the call with the error *)
C14_Witness ==
    /\ dylib.pc = "done"
    /\ Len(dylib.log) = 5
    /\ dylib.sleeps = 5
    /\ ~dylib.result.val.ok
    /\ dylib.result.val.retried = 5


(* what --extern says of name: "private", "public", or "absent" *)
ExternMark(externs, name) ==
    IF name \notin DOMAIN externs THEN "absent"
    ELSE IF externs[name].is_private_dep THEN "private" ELSE "public"

(* C21: is_private_dep returns true if and only if the origin is Injected,   *)
(* or --extern marks the name private, or there is no --extern entry for the *)
(* name and the parent hint says private.                                    *)
C21_PrivateIffInjectedOrMarkedOrHinted ==
    applied.some /\ applied.val.op = "is_private_dep" =>
        LET a == applied.val.args
        IN applied.val.out <=>
               \/ a.origin.tag = "Injected"
               \/ ExternMark(a.externs, a.name) = "private"
               \/ ExternMark(a.externs, a.name) = "absent" /\ a.private_dep = Some(TRUE)

(* C21, amended: is_private_dep returns true if and only if the origin is    *)
(* Injected, or --extern marks the name private and the parent hint does not *)
(* say public, or there is no --extern entry for the name and the parent     *)
(* hint says private.                                                        *)
C21_PrivateUnlessHintSaysPublic ==
    applied.some /\ applied.val.op = "is_private_dep" =>
        LET a == applied.val.args
        IN applied.val.out <=>
               \/ a.origin.tag = "Injected"
               \/ ExternMark(a.externs, a.name) = "private" /\ a.private_dep # Some(FALSE)
               \/ ExternMark(a.externs, a.name) = "absent" /\ a.private_dep = Some(TRUE)

(* a name marked private by --extern, reached with a public hint from its    *)
(* parent, was found public                                                  *)
C21_Witness ==
    /\ applied.some
    /\ applied.val.op = "is_private_dep"
    /\ applied.val.args.origin.tag = "IndirectDependency"
    /\ ExternMark(applied.val.args.externs, applied.val.args.name) = "private"
    /\ applied.val.args.private_dep = Some(FALSE)
    /\ ~applied.val.out


(* the names --extern gives with at least one path *)
NamesWithPaths == {n \in DOMAIN sess.externs : sess.externs[n].files # {}}

(* one of the source paths of the stored crate c is the canonicalized form   *)
(* of a path --extern gives for name                                         *)
FromGivenPath(c, name) ==
    \E l \in sess.externs[name].files : l.canon \in SourcePaths(Row(c).source)

(* C22: when the probed name has an --extern entry with at least one path,   *)
(* existing_match returns a stored crate only if one of the crate's source   *)
(* paths is the canonicalized form of one of the given paths, for every      *)
(* probe, with or without a hash.                                            *)
C22_MatchOnlyFromGivenPath ==
    /\ \A x \in hist.matched : x[1] \in NamesWithPaths => FromGivenPath(x[4], x[1])
    /\ \A name \in NamesWithPaths, kind \in {"Crate", "Dependency"},
          hash \in {None} \cup {Some(Row(c).hash) : c \in Stored} :
           ExistingMatch(metas, sess.externs, name, hash, kind).some =>
               FromGivenPath(ExistingMatch(metas, sess.externs, name, hash, kind).val, name)

(* C22, amended: the same for every probe without a hash; a probe with a     *)
(* hash returns the stored crate of that name and hash wherever it was       *)
(* loaded from.                                                              *)
C22_HashlessMatchOnlyFromGivenPath ==
    /\ \A x \in hist.matched :
           x[1] \in NamesWithPaths /\ ~x[2].some => FromGivenPath(x[4], x[1])
    /\ \A name \in NamesWithPaths, kind \in {"Crate", "Dependency"} :
           ExistingMatch(metas, sess.externs, name, None, kind).some =>
               FromGivenPath(ExistingMatch(metas, sess.externs, name, None, kind).val, name)
    /\ \A name \in NamesWithPaths, kind \in {"Crate", "Dependency"}, c \in Stored :
           Row(c).name = name =>
               /\ ExistingMatch(metas, sess.externs, name, Some(Row(c).hash), kind).some
               /\ Row(ExistingMatch(metas, sess.externs, name, Some(Row(c).hash), kind).val).hash
                      = Row(c).hash

(* existing_match answered a probe without a hash for a name given with a    *)
(* path, and a probe with a hash for the same name                           *)
C22_Witness ==
    \E x, y \in hist.matched :
        /\ x[1] \in NamesWithPaths /\ ~x[2].some
        /\ y[1] = x[1] /\ y[2].some

(* C23: for a probe without a hash whose name has no --extern entry, or an   *)
(* entry without any path, existing_match returns the lowest-numbered stored *)
(* crate of that name whose path kind is compatible with the probe's, and    *)
(* None only if there is no such crate.                                      *)
C23_PathlessMatchByKind ==
    \A name \in Names \ NamesWithPaths, kind \in {"Crate", "Dependency"} :
        ExistingMatch(metas, sess.externs, name, None, kind) =
            FirstOf({c \in Stored :
                        /\ Row(c).name = name
                        /\ PathKindMatches(kind, PrevKind(Row(c).source))})


(* C24: every failure of intern_stable_crate_id is SymbolConflictsCurrent    *)
(* or StableCrateIdCollision; its NotFound arm is never taken.               *)
C24_InternNeverNotFound ==
    \A f \in hist.intern_failed : f.err \in {"SymbolConflictsCurrent", "StableCrateIdCollision"}

(* C24, amended: a failure of intern_stable_crate_id is                      *)
(* SymbolConflictsCurrent exactly when the id is the local crate's,          *)
(* StableCrateIdCollision naming the new crate and the stored crate that     *)
(* holds the id exactly when a stored crate holds it, and NotFound exactly   *)
(* when the id is interned for a slot without metadata: a slot reserved by a *)
(* registration that was abandoned before, or that is still under way and    *)
(* is abandoned by the time the call returns.                                *)
C24_NotFoundForUnfilledReservation ==
    \A f \in hist.intern_failed :
        /\ stable_crate_ids[f.existing + 1] = f.sid
        /\ f.err = "SymbolConflictsCurrent" <=> f.existing = LOCAL_CRATE
        /\ f.err = "StableCrateIdCollision" <=>
               /\ HasCrateData(metas, f.existing)
               /\ Row(f.existing).name = f.other
        /\ (f.err = "NotFound" /\ panicked = "") <=>
               /\ panicked = ""
               /\ f.existing \in hist.reserved \cap hist.abandoned
               /\ ~HasCrateData(metas, f.existing)

(* NotFound was returned for a crate that is a dependency of its own        *)
(* dependency, met while it was being registered, and for a crate whose      *)
(* registration was abandoned by an earlier call                             *)
C24_Witness ==
    /\ panicked = ""
    /\ \E f \in hist.intern_failed :
           f.err = "NotFound" /\ f.name = "x" /\ Cardinality(hist.abandoned) >= 2
    /\ \E f \in hist.intern_failed : f.err = "NotFound" /\ f.name = "d"


(* C25: the CrateNumMap of every stored crate, proc-macro crates included,   *)
(* is non-empty and has the crate's own CrateNum at position 0.              *)
C25_MapStartsWithSelf ==
    \A c \in Stored : Len(Row(c).dependencies) >= 1 /\ Row(c).dependencies[1] = c

(* C25, amended: the CrateNumMap of a proc-macro crate and of a wasm         *)
(* proc-macro stub is empty; the CrateNumMap of every other stored crate     *)
(* has the crate's own CrateNum at position 0, followed by one CrateNum for  *)
(* each declared dependency.                                                 *)
C25_MapStartsWithSelfUnlessProcMacro ==
    \A c \in Stored :
        IF Row(c).is_proc_macro_crate \/ Row(c).hash = "stub"
        THEN Row(c).dependencies = <<>>
        ELSE /\ Len(Row(c).dependencies) = 1 + Len(Row(c).crate_deps)
             /\ Row(c).dependencies[1] = c
             /\ Row(c).cnum = c

(* a proc-macro crate that declares a dependency is stored, and so is a      *)
(* crate with resolved dependencies                                          *)
C25_Witness ==
    /\ \E c \in Stored : Row(c).is_proc_macro_crate /\ Row(c).crate_deps # <<>>
    /\ \E c \in Stored : ~Row(c).is_proc_macro_crate /\ Len(Row(c).dependencies) >= 2

(* the calls of maybe_resolve_crate that came by a public path: from the    *)
(* local crate for a name that --extern does not mark private, or from the  *)
(* dependency list of a public crate as a public dependency                 *)
PublicReach(r) ==
    \/ /\ r.tag = "Extern"
       /\ r.name \in DOMAIN sess.externs => ~sess.externs[r.name].is_private_dep
    \/ /\ r.tag = "IndirectDependency"
       /\ ~r.parent_private
       /\ ~r.dep_private

(* the crates registered as a dependency, under a name without --extern entry *)
FirstLoadedAsDependency(reached) ==
    {y \in reached : y.first /\ y.tag = "IndirectDependency"
                          /\ y.name \notin DOMAIN sess.externs}

(* the call from the local crate that registered a crate --extern marks private *)
RegisteredPrivate(x) ==
    /\ x.first
    /\ x.tag = "Extern"
    /\ x.name \in DOMAIN sess.externs
    /\ sess.externs[x.name].is_private_dep
    /\ x.private_dep

(* C26: when a crate x is registered as private (--extern priv:x) and a     *)
(* crate y without --extern entry is first loaded as a dependency of x,     *)
(* directly or transitively, y is registered with private_dep = true; a     *)
(* later resolution that reaches y by a public path sets y.private_dep to   *)
(* false, and it remains false after every subsequent resolution.           *)
C26_PrivateDownTheWholeTree ==
    /\ [][(/\ last'.op \in {"process_extern_crate", "process_path_extern",
                             "maybe_process_path_extern"}
           /\ \E x \in hist'.reached \ hist.reached :
                  RegisteredPrivate(x) /\ x.name = last'.name)
              => \A y \in FirstLoadedAsDependency(hist'.reached \ hist.reached) :
                     y.private_dep]_vars
    /\ [](\A r \in hist.reached : PublicReach(r) => ~Row(r.cnum).private_dep)

(* C26, amended: a crate y without --extern entry that is first loaded as a *)
(* dependency is registered with private_dep = true exactly when the crate  *)
(* whose dependency list names it was registered private or names it as a   *)
(* private dependency; so when x is registered as private, y is registered  *)
(* private if no crate registered with it has an --extern entry without     *)
(* priv.  A later resolution that reaches y by a public path sets           *)
(* y.private_dep to false, and it remains false after every subsequent      *)
(* resolution.                                                              *)
C26_PrivateDownToAPublicExtern ==
    /\ [][(/\ last'.op \in {"process_extern_crate", "process_path_extern",
                             "maybe_process_path_extern"}
           /\ \E x \in hist'.reached \ hist.reached :
                  RegisteredPrivate(x) /\ x.name = last'.name
           /\ \A z \in hist'.reached \ hist.reached :
                  (z.first /\ z.name \in DOMAIN sess.externs)
                      => sess.externs[z.name].is_private_dep)
              => \A y \in FirstLoadedAsDependency(hist'.reached \ hist.reached) :
                     y.private_dep]_vars
    /\ [](\A y \in FirstLoadedAsDependency(hist.reached) :
              y.private_dep = (y.parent_private \/ y.dep_private))
    /\ [](\A r \in hist.reached : PublicReach(r) => ~Row(r.cnum).private_dep)

(* f was registered as private, its dependency e and e's dependency b with  *)
(* it, both private; b was then reached by a public path and is public      *)
C26_Witness ==
    \E x, z, y, r \in hist.reached :
        /\ RegisteredPrivate(x)
        /\ {z, y} \subseteq FirstLoadedAsDependency(hist.reached)
        /\ z.private_dep /\ y.private_dep
        /\ \E i \in 2 .. Len(Row(x.cnum).dependencies) : Row(x.cnum).dependencies[i] = z.cnum
        /\ \E i \in 2 .. Len(Row(z.cnum).dependencies) : Row(z.cnum).dependencies[i] = y.cnum
        /\ \A i \in 2 .. Len(Row(x.cnum).dependencies) : Row(x.cnum).dependencies[i] # y.cnum
        /\ r.cnum = y.cnum
        /\ ~r.first
        /\ PublicReach(r)
        /\ ~Row(y.cnum).private_dep

(* name was reported as unused by a run of postprocess that buffered lints  *)
(* and pushed the names `pushed` onto unused_externs                        *)
ReportedUnused(name, lints, pushed) ==
    \/ \E i \in 1 .. Len(lints) :
           lints[i].lint = "unused_crate_dependencies" /\ lints[i].extern_crate = name
    \/ \E i \in 1 .. Len(pushed) : pushed[i] = name

(* the same, by the mode: a lint and no push, or with --json=unused-externs *)
(* one push and no lint                                                     *)
ReportedUnusedByMode(name, json, lints, pushed) ==
    /\ Cardinality({i \in 1 .. Len(lints) :
                       /\ lints[i].lint = "unused_crate_dependencies"
                       /\ lints[i].extern_crate = name
                       /\ lints[i].local_crate = sess.local.name}) = (IF json THEN 0 ELSE 1)
    /\ Cardinality({i \in 1 .. Len(pushed) : pushed[i] = name}) = (IF json THEN 1 ELSE 0)

NotReportedUnused(name, lints, pushed) == ~ReportedUnused(name, lints, pushed)

(* the entry is one report_unused_deps_in_crate looks at: it has a path (it *)
(* is not the sysroot fallback) and is marked neither nounused nor force    *)
Reportable(entry) == entry.files # {} /\ ~entry.nounused_dep /\ ~entry.force

(* a step that is a run of postprocess that came to its end *)
PostprocessRan ==
    ncalls' # ncalls /\ postorder' = None /\ last'.op = "postprocess" /\ panicked' = ""

(* C27: after postprocess, an --extern entry is reported as unused (as a    *)
(* lint, or pushed onto unused_externs in JSON mode) if and only if its     *)
(* name never passed through the resolver by any entry point                *)
(* (process_extern_crate, process_path_extern, maybe_process_path_extern or *)
(* an injection pass), its location is not the sysroot fallback, and it is  *)
(* marked neither nounused_dep nor force; a name that was passed to the     *)
(* resolver is never reported, even if its resolution failed.               *)
C27_UnusedIffNeverResolved ==
    [][PostprocessRan =>
         \A name \in DOMAIN sess.externs :
             ReportedUnused(name, post_run'.lints,
                            SubSeq(unused_externs', Len(unused_externs) + 1,
                                   Len(unused_externs')))
               <=> /\ name \notin used_extern_options'
                   /\ name \notin hist'.speculated
                   /\ Reportable(sess.externs[name])]_vars

(* C27, amended: after postprocess, an --extern entry is reported as unused *)
(* (as a lint, or pushed onto unused_externs in JSON mode) if and only if   *)
(* its name was never passed to resolve_crate (by process_extern_crate,     *)
(* process_path_extern or an injection pass; maybe_process_path_extern does *)
(* not count), its location is not the sysroot fallback, and it is marked   *)
(* neither nounused_dep nor force; a name that was passed to resolve_crate  *)
(* is never reported, even if its resolution failed.                        *)
C27_UnusedIffNeverRecorded ==
    [][PostprocessRan =>
         \A name \in DOMAIN sess.externs :
             IF /\ name \notin used_extern_options'
                /\ Reportable(sess.externs[name])
             THEN ReportedUnusedByMode(name, sess.post.json_unused_externs, post_run'.lints,
                                       SubSeq(unused_externs', Len(unused_externs) + 1,
                                              Len(unused_externs')))
             ELSE NotReportedUnused(name, post_run'.lints,
                                    SubSeq(unused_externs', Len(unused_externs) + 1,
                                           Len(unused_externs')))]_vars

(* postprocess reported f, which maybe_process_path_extern had resolved; it *)
(* reported neither q, whose resolution by `extern crate q` had failed, nor *)
(* e, which is marked nounused and was never named                          *)
C27_Witness ==
    /\ last.op = "postprocess"
    /\ panicked = ""
    /\ "f" \in hist.speculated
    /\ \E r \in hist.reached : r.name = "f"
    /\ ReportedUnused("f", post_run.lints, <<>>)
    /\ "q" \in used_extern_options
    /\ \A r \in hist.reached : r.name # "q"
    /\ NotReportedUnused("q", post_run.lints, unused_externs)
    /\ "e" \notin used_extern_options
    /\ sess.externs["e"].nounused_dep
    /\ NotReportedUnused("e", post_run.lints, unused_externs)

(* the local crate or a crate stored when the allocator pass ran is marked  *)
(* needs_allocator                                                          *)
NeedsAllocator ==
    \/ "needs_allocator" \in sess.post.krate_attrs
    \/ \E c \in PassOf("inject_allocator_crate").visible : "needs_allocator" \in Row(c).attrs

(* Some(Global) when the scan met a provider, Some(Default) otherwise *)
KindFor(providers) == IF providers # <<>> THEN Some("Global") ELSE Some("Default")

(* C28: after inject_allocator_crate, if the local unit or any loaded crate  *)
(* is marked needs_allocator, allocator_kind is Some(Global) when some       *)
(* provider declares a global allocator and Some(Default) otherwise, and     *)
(* alloc_error_handler_kind is set by the same rule, also when a conflict    *)
(* diagnostic was emitted; if nothing needs an allocator both stay None.     *)
C28_KindsSetWhenNeeded ==
    HasPass("inject_panic_runtime") =>
        IF NeedsAllocator
        THEN /\ allocator.allocator_kind =
                    KindFor(Providers("has_global_allocator", sess.post.global_alloc_fns))
             /\ allocator.alloc_error_handler_kind =
                    KindFor(Providers("has_alloc_error_handler",
                                      sess.post.alloc_error_handler_fns))
        ELSE /\ allocator.allocator_kind = None
             /\ allocator.alloc_error_handler_kind = None

(* C28, amended: after inject_allocator_crate, if the local unit or any      *)
(* loaded crate is marked needs_allocator and some crate type of the         *)
(* session is not rlib, allocator_kind is Some(Global) when some provider    *)
(* declares a global allocator and Some(Default) otherwise, and              *)
(* alloc_error_handler_kind is set by the same rule, also when a conflict    *)
(* diagnostic was emitted; if nothing needs an allocator, or every crate     *)
(* type is rlib, both stay None.                                             *)
C28_KindsSetWhenNeededAndLinked ==
    HasPass("inject_panic_runtime") =>
        IF NeedsAllocator /\ ~sess.post.only_rlib
        THEN /\ allocator.allocator_kind =
                    KindFor(Providers("has_global_allocator", sess.post.global_alloc_fns))
             /\ allocator.alloc_error_handler_kind =
                    KindFor(Providers("has_alloc_error_handler",
                                      sess.post.alloc_error_handler_fns))
        ELSE /\ allocator.allocator_kind = None
             /\ allocator.alloc_error_handler_kind = None

(* a run that found two global allocators, reported the conflict and chose  *)
(* Global, for the allocator and for the allocation-error handler           *)
C28_Witness ==
    /\ HasPass("inject_panic_runtime")
    /\ NeedsAllocator
    /\ Len(Providers("has_global_allocator", sess.post.global_alloc_fns)) >= 2
    /\ Len(Emitted("ConflictingGlobalAlloc")) >= 1
    /\ allocator.allocator_kind = Some("Global")
    /\ allocator.alloc_error_handler_kind = Some("Global")

(* the panic-runtime pass of the last run called resolve_crate *)
PanicPassResolved ==
    /\ HasPass("report_unused_deps_in_crate")
    /\ PassOf("report_unused_deps_in_crate").resolves =
           PassOf("inject_panic_runtime").resolves + 1

(* the name it called resolve_crate with, and what the pass emitted *)
PanicPassName == post_run.resolves[PassOf("report_unused_deps_in_crate").resolves]

PanicPassEmitted ==
    SubSeq(post_run.emitted, PassOf("inject_panic_runtime").emitted + 1,
           PassOf("report_unused_deps_in_crate").emitted)

(* the calls that resolved the runtime as an injected crate *)
PanicRuntimeReached ==
    {r \in hist.reached : r.tag = "Injected" /\ r.name = PanicPassName}

(* CrateMetadata::required_panic_strategy *)
RequiredPanicStrategy(data) ==
    IF "unwind" \in data.attrs THEN Some("Unwind")
    ELSE IF "abort" \in data.attrs THEN Some("Abort")
    ELSE None

PanicPassEmittedOnce(kind) ==
    Cardinality({i \in 1 .. Len(PanicPassEmitted) :
                    PanicPassEmitted[i] = Diagnostic(kind, PanicPassName, "")})

(* C29: when inject_panic_runtime resolves a runtime, it resolves            *)
(* panic_unwind for the strategy Unwind and panic_abort for the strategy     *)
(* Abort, as an implicit injected crate; injected_panic_runtime is then Some *)
(* of exactly that CrateNum, CrateNotPanicRuntime is emitted exactly when    *)
(* the crate is not marked is_panic_runtime, and NoPanicStrategy exactly     *)
(* when its required_panic_strategy differs from the session strategy.       *)
C29_PanicRuntimeByStrategy ==
    PanicPassResolved =>
        /\ sess.post.panic_strategy \in {"Unwind", "Abort"}
        /\ PanicPassName = (IF sess.post.panic_strategy = "Unwind" THEN "panic_unwind"
                            ELSE "panic_abort")
        /\ IF PanicRuntimeReached = {}
           THEN /\ PassOf("report_unused_deps_in_crate").ipr =
                       PassOf("inject_panic_runtime").ipr
                /\ PanicPassEmittedOnce("CrateNotPanicRuntime") = 0
                /\ PanicPassEmittedOnce("NoPanicStrategy") = 0
           ELSE \A r \in PanicRuntimeReached :
                    /\ injected_panic_runtime = Some(r.cnum)
                    /\ Row(r.cnum).name = PanicPassName
                    /\ Row(r.cnum).dep_kind = "Implicit"
                    /\ r.private_dep
                    /\ PanicPassEmittedOnce("CrateNotPanicRuntime") =
                           (IF "panic_runtime" \in Row(r.cnum).attrs THEN 0 ELSE 1)
                    /\ PanicPassEmittedOnce("NoPanicStrategy") =
                           (IF RequiredPanicStrategy(Row(r.cnum)) =
                                   Some(sess.post.panic_strategy)
                            THEN 0 ELSE 1)

(* the pass resolved panic_abort for the strategy Abort, to a crate that is *)
(* not a panic runtime but requires the strategy Abort                      *)
C29_Witness ==
    /\ PanicPassResolved
    /\ sess.post.panic_strategy = "Abort"
    /\ \E r \in PanicRuntimeReached :
           /\ injected_panic_runtime = Some(r.cnum)
           /\ "panic_runtime" \notin Row(r.cnum).attrs
           /\ RequiredPanicStrategy(Row(r.cnum)) = Some("Abort")
    /\ PanicPassEmittedOnce("CrateNotPanicRuntime") = 1
    /\ PanicPassEmittedOnce("NoPanicStrategy") = 0

(* the entries of the lines ls, in order, field being grammar or pushed *)
EntriesOf(ls, field) ==
    LET some == SelectSeq([i \in 1 .. Len(ls) |-> RecordLines[ls[i]][field]],
                          LAMBDA e : e.some)
    IN [k \in 1 .. Len(some) |-> some[k].val]

ParseMetadataWasApplied == applied.some /\ applied.val.op = "parse_metadata"

(* C30: parse_metadata returns exactly one entry per record line that        *)
(* conforms to the grammar, in input order: the kind tag selects the         *)
(* variant, the first identifier is the macro name and the second the        *)
(* exported function name, a derive without an attribute list has an empty   *)
(* helper-attribute list, and a last line without a trailing newline is      *)
(* still parsed; lines with an unknown kind or a non-conforming field count  *)
(* contribute no entry and do not affect the other lines.                    *)
C30_OneEntryPerRecordOfTheGrammar ==
    ParseMetadataWasApplied =>
        applied.val.out = EntriesOf(applied.val.args.lines, "grammar")

(* C30, amended: for a section that is UTF-8, parse_metadata returns exactly *)
(* one entry per line that, trimmed and split at the colons, is a known kind *)
(* tag followed by two fields, or the tag derive followed by three, in input *)
(* order and whatever the fields hold (an empty name or an empty attribute   *)
(* list is accepted): the kind tag selects the variant, the first field is   *)
(* the macro name and the second the exported function name, a derive        *)
(* without an attribute list has an empty helper-attribute list, and a last  *)
(* line without a trailing newline is still parsed; blank lines and lines    *)
(* with an unknown kind or another field count contribute no entry and do    *)
(* not affect the other lines.  For a section that is not UTF-8 it returns   *)
(* no entry at all.                                                          *)
C30_OneEntryPerLineOfThreeOrFourFields ==
    ParseMetadataWasApplied =>
        applied.val.out =
            IF \E i \in 1 .. Len(applied.val.args.bytes) : applied.val.args.bytes[i] >= 128
            THEN <<>>
            ELSE EntriesOf(applied.val.args.lines, "pushed")

(* a section of three lines without a line feed at the end: a derive         *)
(* without attributes, a line of an unknown kind, and a bang record; the     *)
(* derive and the bang were returned, in this order                          *)
C30_Witness ==
    /\ ParseMetadataWasApplied
    /\ ~applied.val.args.newline
    /\ Len(applied.val.args.lines) = 3
    /\ RecordLines[applied.val.args.lines[1]].grammar.some
    /\ ~RecordLines[applied.val.args.lines[2]].pushed.some
    /\ RecordLines[applied.val.args.lines[2]].bytes # <<>>
    /\ RecordLines[applied.val.args.lines[3]].grammar.some
    /\ Len(applied.val.out) = 2
    /\ applied.val.out[1].kind = "CustomDerive"
    /\ applied.val.out[1].attributes = <<>>
    /\ applied.val.out[2].kind = "Bang"

----------------------------------------------------------------------------
(* an expansion was run, of the extension ext of the last load's result *)
Expanded(ext) ==
    /\ applied.some
    /\ applied.val.op = "expand"
    /\ ext = hist.wasm_result[applied.val.args.macro]

(* the metadata entry the extension was made of: the index-th declaration of *)
(* the module it came from                                                   *)
EntryOf(ext) == ExtractProcMacroMetadata(WasmFile(ext.from))[ext.def_id.index]

(* C31: invoking the client of a macro registered from a wasm module calls   *)
(* the interpreter on that module, with the function name of the macro's own *)
(* metadata entry, and with one token stream for a derive or a bang macro    *)
(* and two for an attribute macro, whatever was registered before or after.  *)
C31_ClientCallsItsOwnModule ==
    \A ext \in Range(hist.wasm_result) :
        Expanded(ext) =>
            LET out == applied.val.out
            IN /\ out.panic = ""
               /\ out.call.instance = ext.from
               /\ out.call.fun = EntryOf(ext).function_name
               /\ ext.kind = EntryOf(ext).kind
               /\ out.call.inputs = IF ext.kind = "Attr"
                                    THEN <<applied.val.args.args, applied.val.args.input>>
                                    ELSE <<applied.val.args.input>>

(* an attribute macro registered after another macro was expanded with two   *)
(* different token streams, in a session that registered the macros of a     *)
(* second module after it                                                    *)
C31_Witness ==
    \E ext \in Range(hist.wasm_result) :
        /\ Expanded(ext)
        /\ ext.client.slot > 0
        /\ ext.kind = "Attr"
        /\ applied.val.args.args # applied.val.args.input
        /\ \E other \in Range(hist.wasm_result) :
               other.from # ext.from /\ other.client.slot > ext.client.slot

----------------------------------------------------------------------------
(* the results the loop of resolve_crate_deps(k) got, in the order it got    *)
(* them                                                                      *)
DepEvents(log, k) == SelectSeq(log, LAMBDA e : e.krate = k)

(* the crate stored as k by this step was registered with its dependencies   *)
(* resolved in declaration order, each into its position of the CrateNumMap  *)
RegisteredInOrder(log, row, k) ==
    LET ev == DepEvents(log, k)
        n == Len(row.crate_deps)
    IN /\ Len(row.dependencies) = n + 1
       /\ Len(ev) = n
       /\ \A i \in 1 .. n :
              /\ ev[i].i = i
              /\ ev[i].name = row.crate_deps[i].name
              /\ ev[i].ok
              /\ row.dependencies[i + 1] = ev[i].cnum

(* the p-th result of the log is an error: it is the last result its crate's *)
(* loop got, after the results of the dependencies declared before it; the   *)
(* crate is not stored, and the call that was registering the crate returned *)
(* the same error to its own caller                                          *)
FailedAtFirstError(log, ms, p) ==
    LET ev == DepEvents(log, log[p].krate)
    IN /\ \A q \in p + 1 .. Len(log) : log[q].krate # log[p].krate
       /\ Len(ev) = log[p].i
       /\ \A i \in 1 .. Len(ev) : ev[i].i = i /\ (ev[i].ok <=> i < Len(ev))
       /\ ~HasCrateData(ms, log[p].krate)
       /\ p < Len(log)
       /\ ~log[p + 1].ok
       /\ log[p + 1].err = log[p].err

(* C32: a newly loaded crate that is not a proc-macro crate is registered    *)
(* with its n declared dependencies resolved one at a time in declaration    *)
(* order, its CrateNumMap has length n + 1 and holds at position i the       *)
(* CrateNum the i-th dependency resolved to; when a dependency fails to      *)
(* resolve, the later ones are not resolved and the registration fails with  *)
(* that dependency's error.                                                  *)
C32_DependenciesInOrderUpToFirstError ==
    [][panicked' = "" =>
         /\ \A k \in IterCrateData(metas') \ IterCrateData(metas) :
                LET row == GetCrateData(metas', k)
                IN ~row.is_proc_macro_crate /\ row.hash # "stub" =>
                       RegisteredInOrder(hist'.dep_log, row, k)
         /\ \A p \in 1 .. Len(hist'.dep_log) :
                hist'.dep_log[p].krate >= 0 /\ ~hist'.dep_log[p].ok =>
                    FailedAtFirstError(hist'.dep_log, metas', p)]_vars

(* a crate was registered with two dependencies or more, and the first       *)
(* dependency of x, which declares two, failed to resolve while x was being  *)
(* registered for the local crate                                            *)
C32_Witness ==
    /\ panicked = ""
    /\ \E k \in Stored : Len(DepEvents(hist.dep_log, k)) >= 2
    /\ \E p \in 1 .. Len(hist.dep_log) - 1 :
           /\ hist.dep_log[p].name = "y"
           /\ hist.dep_log[p].i = 1
           /\ ~hist.dep_log[p].ok
           /\ hist.dep_log[p + 1].krate = -1
           /\ hist.dep_log[p + 1].name = "x"

----------------------------------------------------------------------------
----------------------------------------------------------------------------
(* the clients made so far: the thread, and the index and data of its call *)
Made == {<<t, k>> : t \in Threads, k \in 1 .. MaxAllocs}

MadeNow(th) == {c \in Made : c[2] <= Len(th[c[1]].made)}

(* C34: however the callers of allocate_slot interleave, each call returns   *)
(* the lowest index that was free when it took the lock, no two calls        *)
(* return the same index, a bound slot is never bound again nor cleared, and *)
(* every slot function reads the data its client was made of.                *)
C34_DistinctSlotsNeverRebound ==
    [][/\ Len(slots') >= Len(slots)
       /\ \A i \in 1 .. Len(slots) : slots'[i] = slots[i]
       /\ \A c \in MadeNow(threads') :
              LET m == threads'[c[1]].made[c[2]]
              IN /\ m.slot < Len(slots')
                 /\ slots'[m.slot + 1] = m.data
                 /\ \A d \in MadeNow(threads') \ {c} :
                        threads'[d[1]].made[d[2]].slot # m.slot
       /\ \A t \in Threads :
              /\ Len(threads'[t].made) > Len(threads[t].made) =>
                     threads'[t].made[Len(threads'[t].made)].slot = threads[t].at_lock
              /\ threads'[t].read.some =>
                     \E c \in MadeNow(threads') :
                         threads'[c[1]].made[c[2]] = threads'[t].read.val]_vars

(* both threads made two clients each, the calls of one thread falling       *)
(* between those of the other, and a slot function of a thread read the data *)
(* of a client the other thread made                                         *)
C34_Witness ==
    /\ \A t \in Threads : Len(threads[t].made) = MaxAllocs
    /\ threads[1].made[1].slot < threads[2].made[1].slot
    /\ threads[2].made[1].slot < threads[1].made[2].slot
    /\ threads[1].read.some
    /\ threads[1].read.val.data.wasm_macro = "/w/v.wasm"

----------------------------------------------------------------------------
(* the extensions load_wasm_proc_macros returned for the entry l have the    *)
(* DefIds of l's CrateNum with the indices 1 .. n                            *)
ReturnedWithDefIds(l) ==
    \A idx \in 1 .. l.macros :
        \E k \in 1 .. Len(hist.wasm_result) :
            /\ hist.wasm_result[k].from = l.path
            /\ hist.wasm_result[k].def_id = [krate |-> l.cnum, index |-> idx]

(* C35: load_wasm_proc_macros completes for an entry whose synthetic         *)
(* StableCrateId is interned already: it uses the existing CrateNum, returns *)
(* the module's macros with DefIds of that CrateNum and the indices 1 .. n,  *)
(* does not panic and overwrites no stored row; for a new id it reserves a   *)
(* fresh slot and fills it with the stub, so that the CrateNum has crate     *)
(* data.                                                                     *)
C35_ExistingIdCompletes ==
    \A l \in hist.wasm_loaded :
        /\ l.panic = ""
        /\ HasCrateData(metas, l.cnum)
        /\ Row(l.cnum).hash = "stub" <=> ~l.stored_before
        /\ panicked = "" => ReturnedWithDefIds(l)
        /\ ~l.existing => l.cnum = l.ids_before

----------------------------------------------------------------------------
(* what the calls of WasmMacro::id returned so far *)
IdsReturned == UNION {Range(threads[t].returned) : t \in Threads}

(* C36: every call of WasmMacro::id on a WasmMacro returns the same non-zero *)
(* identifier, the first call and concurrent first calls included, and calls *)
(* on two WasmMacros never return the same identifier.                       *)
C36_IdStableNonZeroDistinct ==
    \A r \in IdsReturned :
        /\ r.id # 0
        /\ \A q \in IdsReturned : (q.self = r.self) <=> (q.id = r.id)
----------------------------------------------------------------------------
(* the dependencies of crate c other than c itself *)
ProperDeps(c) ==
    {Row(c).dependencies[i] : i \in 1 .. Len(Row(c).dependencies)} \ {c}

(* C37: crate_dependencies_in_postorder terminates on every store the       *)
(* resolver can build: every dependency of a stored crate is stored, no     *)
(* stored crate is reachable from one of its dependencies other than itself *)
(* (so push_dependencies_in_postorder, which skips the self entry, cannot   *)
(* recurse forever), and every query made has returned its list.            *)
C37_PostorderTerminates ==
    /\ \A c \in Stored :
           /\ ProperDeps(c) \subseteq Stored
           /\ c \notin ReachableFrom(ProperDeps(c))
    /\ postorder.some =>
           /\ ~postorder.val.panic
           /\ \A i \in 1 .. Len(postorder.val.deps) : postorder.val.deps[i] \in Stored

(* a crate whose dependency depends back on it was given to the resolver,   *)
(* which refused it, and a later query walked a crate with dependencies of  *)
(* its own, one of them holding the crate itself at position 0              *)
C37_Witness ==
    /\ postorder.some
    /\ Len(postorder.val.deps) >= 3
    /\ \E c \in Stored : Len(Row(c).dependencies) >= 2 /\ Row(c).dependencies[1] = c
    /\ \E p \in 1 .. Len(hist.dep_log) :
           /\ hist.dep_log[p].name = "x"
           /\ hist.dep_log[p].krate > 0
           /\ ~hist.dep_log[p].ok
----------------------------------------------------------------------------
(* the number of bytes of the unsigned LEB128 number at offset from: the     *)
(* bytes up to the first one without the continuation bit; 0 when the input  *)
(* ends before such a byte or there is none among the first five             *)
LebLen(bytes, from) ==
    LET ks == {k \in 1 .. 5 : /\ from + k <= Len(bytes)
                              /\ bytes[from + k] < 128
                              /\ \A j \in 1 .. k - 1 : bytes[from + j] >= 128}
    IN IF ks = {} THEN 0 ELSE CHOOSE k \in ks : TRUE

(* its value as a u32: seven bits a byte, the low ones first, four of the    *)
(* fifth byte                                                                *)
LebValue(bytes, from) ==
    LET Digit(j) == IF j > LebLen(bytes, from) THEN 0
                    ELSE IF j = 5 THEN (bytes[from + j] % 16) * 2 ^ 28
                    ELSE (bytes[from + j] % 128) * 2 ^ (7 * (j - 1))
    IN Digit(1) + Digit(2) + Digit(3) + Digit(4) + Digit(5)

(* where the section at offset p ends, by its size field *)
SectionEnd(bytes, p) == p + 1 + LebLen(bytes, p + 1) + LebValue(bytes, p + 1)

(* the offsets of the sections laid out one after another from offset p, up  *)
(* to the first whose size cannot be read                                    *)
RECURSIVE SectionStartsFrom(_, _)
SectionStartsFrom(bytes, p) ==
    IF p >= Len(bytes) THEN <<>>
    ELSE <<p>> \o (IF LebLen(bytes, p + 1) = 0 THEN <<>>
                   ELSE SectionStartsFrom(bytes, SectionEnd(bytes, p)))

(* the section at p is a custom section that ends inside the input *)
CustomInside(bytes, p) ==
    /\ LebLen(bytes, p + 1) > 0
    /\ bytes[p + 1] = 0
    /\ SectionEnd(bytes, p) <= Len(bytes)

(* where the name of the custom section at p starts and ends *)
NameStart(bytes, p) ==
    p + 1 + LebLen(bytes, p + 1) + LebLen(bytes, p + 1 + LebLen(bytes, p + 1))

NameEnd(bytes, p) == NameStart(bytes, p) + LebValue(bytes, p + 1 + LebLen(bytes, p + 1))

(* a length of the section at p is truncated or longer than five bytes *)
LengthMalformed(bytes, p) ==
    \/ LebLen(bytes, p + 1) = 0
    \/ CustomInside(bytes, p) /\ LebLen(bytes, p + 1 + LebLen(bytes, p + 1)) = 0

(* the section at p is a custom section of that name, all of it in the input *)
CustomNamed(bytes, p, section_name) ==
    /\ CustomInside(bytes, p)
    /\ ~LengthMalformed(bytes, p)
    /\ NameEnd(bytes, p) <= SectionEnd(bytes, p)
    /\ SubSeq(bytes, NameStart(bytes, p) + 1, NameEnd(bytes, p)) = section_name

(* what find_custom_section has to return for the input *)
SectionFound(bytes, section_name, out) ==
    LET starts == SectionStartsFrom(bytes, 8)
        named == {i \in 1 .. Len(starts) : CustomNamed(bytes, starts[i], section_name)}
        malformed == {i \in 1 .. Len(starts) : LengthMalformed(bytes, starts[i])}
    IN /\ named = {} => out = None
       /\ (\E e \in malformed : \A m \in named : e < m) => out = None
       /\ \A m \in named :
              (\A i \in 1 .. m - 1 : i \notin named \cup malformed) =>
                  out = Some(SubSeq(bytes, NameEnd(bytes, starts[m]) + 1,
                                    SectionEnd(bytes, starts[m])))

----------------------------------------------------------------------------
(* C39: read_leb128_u32 applied to encode_varuint32(v) followed by any bytes *)
(* returns v and the length of the encoding; and the module inject_metadata  *)
(* writes for a module is the module with the declarations section inserted *)
(* at offset 8, from which extract_proc_macro_metadata returns exactly the  *)
(* record injected, the derive Demo with the function demo.                  *)
C39_InjectedLengthsRoundTrip ==
    /\ (applied.some /\ applied.val.op = "encode_varuint32") =>
           /\ applied.val.out.read =
                  Some(<<applied.val.args.value, Len(applied.val.out.encoded)>>)
           /\ Len(applied.val.out.encoded) \in 1 .. 5
    /\ (applied.some /\ applied.val.op = "inject_metadata") =>
           LET wasm_bytes == applied.val.args.wasm_bytes
               out == applied.val.out
           IN (Len(wasm_bytes) >= 8 /\ SubSeq(wasm_bytes, 1, 4) = WasmMagic) =>
                  /\ out.output.some
                  /\ SubSeq(out.output.val, 1, 8) = SubSeq(wasm_bytes, 1, 8)
                  /\ out.output.val[9] = 0
                  /\ CustomNamed(out.output.val, 8, DeclsSectionName)
                  /\ SubSeq(out.output.val, SectionEnd(out.output.val, 8) + 1,
                            Len(out.output.val)) = SubSeq(wasm_bytes, 9, Len(wasm_bytes))
                  /\ out.extracted =
                         Some(<<ProcMacroMetadata("CustomDerive", <<68, 101, 109, 111>>, <<>>,
                                                  <<100, 101, 109, 111>>)>>)

(* a value of five bytes was encoded and read back before further bytes, or  *)
(* the section was injected into a module that has a declarations section    *)
(* of its own                                                                *)
C39_Witness ==
    /\ applied.some
    /\ \/ /\ applied.val.op = "encode_varuint32"
          /\ Len(applied.val.out.encoded) = 5
          /\ applied.val.args.rest # <<>>
          /\ applied.val.out.read.some
       \/ /\ applied.val.op = "inject_metadata"
          /\ applied.val.args.wasm_bytes = WasmFile("/w/w.wasm")
          /\ applied.val.out.extracted.some
          /\ Len(applied.val.out.extracted.val) = 1
----------------------------------------------------------------------------
(* C40: assert!(locator.hash.is_none()) of load never fails: whenever load   *)
(* finds a stored crate with the name and the hash of the library located,   *)
(* the locator has no hash, also in the host load of load_proc_macro under   *)
(* dual proc macros, where locator.hash is the dependency's host_hash.       *)
C40_LocatorHashAssertNeverFails ==
    panicked # "assertion failed: locator.hash.is_none()"
====
